---- MODULE Spec2Model ----
(***************************************************************************)
(* Cache orchestration of the Ubiqitum KPI API.                            *)
(*                                                                         *)
(* The module models                                                       *)
(*   - canonicalDomain / buildSK (netlify/functions/ubiqitum-kpi-core.ts), *)
(*   - isValidKpiPayload / normaliseKpiPayload and the cache handler       *)
(*     (netlify/functions/ubiqitum-cache.ts, the handler that reports a    *)
(*     cache status),                                                      *)
(*   - the earlier handler of netlify/ubiqitum-cache.ts, which writes the  *)
(*     same store keys without a validity check and without a TTL,         *)
(*   - computeSK of the decision handler (ubiqitumCacheOrchestrator.ts),   *)
(*   - the numeric normalisers of the KPI function (ubiqitum-kpi.ts and    *)
(*     the draft in unnamed/part_004).                                     *)
(*                                                                         *)
(* Strings are sequences of one-character strings.  JSON values are        *)
(* records [t, n, s]: the JavaScript type, the number, the string.         *)
(* Time is counted in ticks, TicksPerDay ticks to the day.                 *)
(***************************************************************************)
EXTENDS Integers, Sequences, FiniteSets, TLC

VARIABLES now, store, reqs, input, output, kpi

vars == <<now, store, reqs, input, output, kpi>>

(***************************************************************************)
(* Bounds of the model.                                                    *)
(***************************************************************************)
MaxTime == 3

TicksPerDay == 2

\* The raw values given to the normaliser lie within NormSpan thousandths of
\* 0, 50 and 100; its seeds lie in -MaxSeed..MaxSeed.
NormSpan == 520

MaxSeed == 3

(***************************************************************************)
(* Strings.                                                                *)
(***************************************************************************)
UpperChars == <<"A","B","C","D","E","F","G","H","I","J","K","L","M",
                "N","O","P","Q","R","S","T","U","V","W","X","Y","Z">>
LowerChars == <<"a","b","c","d","e","f","g","h","i","j","k","l","m",
                "n","o","p","q","r","s","t","u","v","w","x","y","z">>
DigitChars == <<"0","1","2","3","4","5","6","7","8","9">>

IsSpaceChar(c) == c \in {" ", "\t", "\n"}

toLowerCaseChar(c) ==
  IF \E i \in 1..26 : UpperChars[i] = c
  THEN LowerChars[CHOOSE i \in 1..26 : UpperChars[i] = c]
  ELSE c

toLowerCase(s) == [i \in 1..Len(s) |-> toLowerCaseChar(s[i])]

startsWith(s, p) == Len(s) >= Len(p) /\ SubSeq(s, 1, Len(p)) = p

slice(s, k) == SubSeq(s, k + 1, Len(s))

\* String.prototype.trim: drop the leading and the trailing white space.
trim(s) ==
  LET nonSpace == {i \in 1..Len(s) : ~IsSpaceChar(s[i])}
  IN  IF nonSpace = {} THEN <<>>
      ELSE SubSeq(s, CHOOSE i \in nonSpace : \A j \in nonSpace : i <= j,
                     CHOOSE i \in nonSpace : \A j \in nonSpace : i >= j)

\* u.replace(/^https?:\/\//, ""), applied to the trimmed, lower-cased string.
stripScheme(u) ==
  IF startsWith(u, <<"h","t","t","p",":","/","/">>) THEN slice(u, 7)
  ELSE IF startsWith(u, <<"h","t","t","p","s",":","/","/">>) THEN slice(u, 8)
  ELSE u

\* u.split(/[\/?#]/, 1)[0]: the part before the first '/', '?' or '#'.
splitFirst(u) ==
  LET cut == {i \in 1..Len(u) : u[i] \in {"/", "?", "#"}}
  IN  IF cut = {} THEN u
      ELSE SubSeq(u, 1, (CHOOSE i \in cut : \A j \in cut : i <= j) - 1)

\* Variant: the leading www. label is kept.
canonicalDomainKeepWww(u) == splitFirst(stripScheme(toLowerCase(trim(u))))

canonicalDomain(u) ==
  LET h == splitFirst(stripScheme(toLowerCase(trim(u))))
  IN  IF startsWith(h, <<"w","w","w",".">>) THEN slice(h, 4) ELSE h


(***************************************************************************)
(* JSON / JavaScript values.                                               *)
(***************************************************************************)
Val(t, n, s) == [t |-> t, n |-> n, s |-> s]

Undefined == Val("undefined", 0, <<>>)
Null      == Val("null", 0, <<>>)
NaN       == Val("nan", 0, <<>>)
Infinity  == Val("infinity", 0, <<>>)
Num(k)    == Val("number", k, <<>>)
Str(s)    == Val("string", 0, s)

\* JavaScript truthiness of a value (the operands of || in the handlers).
Falsy(v) ==
  \/ v.t \in {"undefined", "null", "nan"}
  \/ v.t = "string" /\ v.s = <<>>
  \/ v.t = "number" /\ v.n = 0

OrElse(v, d) == IF Falsy(v) THEN d ELSE v

\* v ?? d
Coalesce(v, d) == IF v.t \in {"undefined", "null"} THEN d ELSE v

RECURSIVE natToString(_)
natToString(k) ==
  IF k < 10 THEN <<DigitChars[k + 1]>>
  ELSE natToString(k \div 10) \o <<DigitChars[(k % 10) + 1]>>

\* String(n) of an integer.
intToString(k) == IF k < 0 THEN <<"-">> \o natToString(-k) ELSE natToString(k)

\* String(v) of a value: a string is itself, an integer its decimal digits.
String(v) ==
  CASE v.t = "number"    -> intToString(v.n)
    [] v.t = "string"    -> v.s
    [] v.t = "undefined" -> <<"u","n","d","e","f","i","n","e","d">>
    [] v.t = "null"      -> <<"n","u","l","l">>
    [] v.t = "nan"       -> <<"N","a","N">>
    [] v.t = "infinity"  -> <<"I","n","f","i","n","i","t","y">>

IsDigitChar(c) == \E i \in 1..10 : DigitChars[i] = c

DigitValue(c) == (CHOOSE i \in 1..10 : DigitChars[i] = c) - 1

RECURSIVE digitsToNat(_)
digitsToNat(s) ==
  IF s = <<>> THEN 0
  ELSE 10 * digitsToNat(SubSeq(s, 1, Len(s) - 1)) + DigitValue(s[Len(s)])

\* Number(v): the numeric reading of a value.  A string is trimmed; the
\* empty string reads 0, a run of digits reads its value, anything else NaN.
Number(v) ==
  CASE v.t = "number"    -> v
    [] v.t = "nan"       -> NaN
    [] v.t = "infinity"  -> Infinity
    [] v.t = "null"      -> Num(0)
    [] v.t = "undefined" -> NaN
    [] v.t = "boolean"   -> Num(v.n)
    [] v.t = "string"    ->
         LET d == trim(v.s)
         IN  IF d = <<>> THEN Num(0)
             ELSE IF \A i \in 1..Len(d) : IsDigitChar(d[i])
                  THEN Num(digitsToNat(d))
                  ELSE NaN

\* Number.isFinite
isFinite(v) == v.t = "number"

\* JSON.stringify followed by JSON.parse of one property value: NaN and
\* Infinity are written as null, an undefined property is left out.
JsonValue(v) == IF v.t \in {"nan", "infinity"} THEN Null ELSE v

(***************************************************************************)
(* Stability key.                                                          *)
(***************************************************************************)
SCHEMA_VERSION == <<"V","3",".","5",".","1","4">>

RECURSIVE join(_, _)
join(parts, sep) ==
  IF Len(parts) = 0 THEN <<>>
  ELSE IF Len(parts) = 1 THEN parts[1]
  ELSE parts[1] \o sep \o join(Tail(parts), sep)

\* The digest is taken to be collision free: it is represented by the
\* tagged string it was computed from.
sha256(s) == <<"sha256:">> \o s

\* Variant: the stability mode is one of the hashed parts.
skPartsWithMode(args) ==
  << canonicalDomain(args.brand_url.s),
     toLowerCase(OrElse(args.brand_name, Str(<<>>)).s),
     toLowerCase(OrElse(args.market, Str(<<"G","l","o","b","a","l">>)).s),
     toLowerCase(OrElse(args.sector, Str(<<>>)).s),
     toLowerCase(OrElse(args.segment, Str(<<"B","2","C">>)).s),
     toLowerCase(OrElse(args.timeframe, Str(<<"C","u","r","r","e","n","t">>)).s),
     toLowerCase(OrElse(args.industry_definition, Str(<<>>)).s),
     IF args.seed.t \in {"undefined", "null"} THEN <<>> ELSE String(args.seed),
     toLowerCase(OrElse(args.stability_mode, Str(<<>>)).s),
     SCHEMA_VERSION >>

skParts(args) ==
  << canonicalDomain(args.brand_url.s),
     toLowerCase(OrElse(args.brand_name, Str(<<>>)).s),
     toLowerCase(OrElse(args.market, Str(<<"G","l","o","b","a","l">>)).s),
     toLowerCase(OrElse(args.sector, Str(<<>>)).s),
     toLowerCase(OrElse(args.segment, Str(<<"B","2","C">>)).s),
     toLowerCase(OrElse(args.timeframe, Str(<<"C","u","r","r","e","n","t">>)).s),
     toLowerCase(OrElse(args.industry_definition, Str(<<>>)).s),
     IF args.seed.t \in {"undefined", "null"} THEN <<>> ELSE String(args.seed),
     SCHEMA_VERSION >>

buildSK(args) == sha256(join(skParts(args), <<"|">>))

(***************************************************************************)
(* KPI payloads.  A payload is a JSON value: an object with the four       *)
(* benchmark fields and one further score field (obj = TRUE), or a value   *)
(* that is no object (obj = FALSE: JSON null, a number, a string).         *)
(***************************************************************************)
fields == << "brand_relevance_percent",
             "brand_awareness_percent",
             "sector_relevance_avg_percent",
             "sector_awareness_avg_percent" >>

BenchmarkFields == {fields[i] : i \in 1..Len(fields)}

PayloadKeys == BenchmarkFields \cup {"brand_trust_percent"}

Obj(a, b, c, d, e) ==
  [obj |-> TRUE,
   f   |-> [k \in PayloadKeys |->
              CASE k = "brand_relevance_percent"      -> a
                [] k = "brand_awareness_percent"      -> b
                [] k = "sector_relevance_avg_percent" -> c
                [] k = "sector_awareness_avg_percent" -> d
                [] OTHER                              -> e]]

NonObject == [obj |-> FALSE, f |-> [k \in PayloadKeys |-> Undefined]]

EmptyObject == [obj |-> TRUE, f |-> [k \in PayloadKeys |-> Undefined]]

\* Variant: the empty string is not excluded (it reads as 0).
countsAsValidEmptyString(v) ==
  IF v.t \in {"null", "undefined"} THEN FALSE
  ELSE isFinite(IF v.t = "number" THEN v ELSE Number(v))

\* The filter callback of isValidKpiPayload.
countsAsValid(v) ==
  IF v.t \in {"null", "undefined"} \/ (v.t = "string" /\ v.s = <<>>) THEN FALSE
  ELSE isFinite(IF v.t = "number" THEN v ELSE Number(v))

validCountMin == 3

isValidKpiPayload(payload) ==
  IF ~payload.obj THEN FALSE
  ELSE LET keep(key) == countsAsValid(payload.f[key])
           validCount == Len(SelectSeq(fields, keep))
       IN  validCount >= validCountMin

normaliseKpiPayload(payload) ==
  IF ~payload.obj THEN payload
  ELSE [payload EXCEPT !.f =
          [k \in PayloadKeys |->
             IF k \in BenchmarkFields /\ payload.f[k].t \notin {"undefined", "null"}
             THEN Number(payload.f[k])
             ELSE payload.f[k]]]

\* JSON.stringify / JSON.parse of a payload (the store and the response body).
Json(payload) == [payload EXCEPT !.f = [k \in PayloadKeys |-> JsonValue(payload.f[k])]]

\* { ...payload }: the own properties of an object, none for a non-object.
Spread(payload) == IF payload.obj THEN payload ELSE EmptyObject

(***************************************************************************)
(* Requests.                                                               *)
(***************************************************************************)
Body(url, seed, mode, cwd) ==
  [brand_url |-> url, brand_name |-> Undefined, market |-> Undefined,
   sector |-> Undefined, segment |-> Undefined, timeframe |-> Undefined,
   industry_definition |-> Undefined, seed |-> seed,
   stability_mode |-> mode, consistency_window_days |-> cwd]

ExampleCom == <<"e","x","a","m","p","l","e",".","c","o","m">>
ExampleUrl == <<"h","t","t","p","s",":","/","/","W","W","W",".",
                "E","x","a","m","p","l","e",".","c","o","m","/">>
OtherCom   == <<"b",".","i","o">>
Live       == <<"l","i","v","e">>
Pinned     == <<"p","i","n","n","e","d">>

Bodies ==
  {Body(Str(ExampleCom), Num(2), m, w) :
     m \in {Undefined, Str(Live)},
     w \in {Undefined, Num(1)}}
  \cup {Body(Str(OtherCom), Num(2), Undefined, Num(1))}
  \cup {Body(Undefined, Num(2), Undefined, Undefined)}

\* Values of brand_url that are truthy strings without a host: white space
\* only, a scheme only, and strings that start with '/', '?' or '#'.
EdgeUrls ==
  { <<" ">>, <<"h","t","t","p","s",":","/","/">>, <<"/","x">>, <<"?","q">>, <<"#">> }

EdgeBodies == {Body(Str(u), Num(2), Undefined, Undefined) : u \in EdgeUrls}

\* event.body: a JSON text that parses to a body, or a text that does not parse.
Events ==
  [parses : {TRUE}, body : Bodies]
  \cup {[parses |-> FALSE, body |-> Body(Undefined, Undefined, Undefined, Undefined)]}

\* What the upstream call can do: fetch rejects (network error, timeout),
\* the response text is not JSON (truncated output, an HTML error page), or
\* the text parses to a JSON value.  The HTTP status is not looked at.
UpstreamPayloads ==
  { Obj(Num(10), Num(20), Num(30), Num(40), Num(50)),
    Obj(Num(11), Num(20), Num(30), Null, Num(50)),
    Obj(Str(<<"1","2">>), Str(<<"7">>), Str(<<>>), Num(40), Undefined),
    Obj(Num(10), Num(20), Null, Undefined, Num(50)),
    EmptyObject }

NoPayload == NonObject

UpstreamOutcomes ==
  {[kind |-> "throw", payload |-> NoPayload],
   [kind |-> "text", payload |-> NoPayload]}
  \cup [kind : {"json"}, payload : UpstreamPayloads]

NoOutcome == [kind |-> "none", payload |-> NoPayload]

(***************************************************************************)
(* The store: one entry per key, or none.  expires_at is the tick after    *)
(* which the entry is gone; NoExpiry for an entry written without a TTL.   *)
(***************************************************************************)
NoExpiry == 0 - 1

keyPrefix == <<"ubiqitum:sk:">>

redisKey(sk) == keyPrefix \o sk

\* buildSK of the bodies of the model, tabulated.
skOf == [b \in {x \in Bodies \cup EdgeBodies : x.brand_url.t = "string"} |-> buildSK(b)]

Keys == {redisKey(skOf[b]) : b \in DOMAIN skOf}

NoSK == <<>>

NoEntry ==
  [present |-> FALSE, payload |-> NoPayload,
   meta |-> [sk |-> NoSK, last_refreshed_at |-> 0, consistency_window_days |-> 0],
   expires_at |-> NoExpiry, by |-> "none"]

Entry(payload, sk, last, window, exp, by) ==
  [present |-> TRUE, payload |-> Json(payload),
   meta |-> [sk |-> sk, last_refreshed_at |-> last, consistency_window_days |-> window],
   expires_at |-> exp, by |-> by]

DEFAULT_WINDOW_DAYS == 180

\* Number(body.consistency_window_days ?? 180)
windowDaysOf(body) == Number(Coalesce(body.consistency_window_days, Num(DEFAULT_WINDOW_DAYS))).n

\* Variant: the stability mode of the request is not read.
modeOfIgnored(body) == Pinned

\* Variant: every request is taken to be live.
modeOfAlwaysLive(body) == Live

\* body.stability_mode || "pinned"
modeOf(body) == OrElse(body.stability_mode, Str(Pinned)).s

\* Variant: the freshness test excludes the boundary.
withinWindowStrict(ageTicks, days) == ageTicks < days * TicksPerDay

\* ageDays <= window, with the age in ticks and the window in days.
withinWindowTest(ageTicks, days) == ageTicks <= days * TicksPerDay

(***************************************************************************)
(* The cache handler.  A request is in one of the places                   *)
(*   idle      no request,                                                 *)
(*   fetching  awaiting the upstream call (await fetch),                   *)
(*   storing   awaiting the store write (await redis.set),                 *)
(*   done      answered; resp is the response, not yet delivered.          *)
(***************************************************************************)
Procs == DOMAIN reqs

NoResp ==
  [status |-> 0, x_cache_status |-> "none", cache_status |-> "none", payload |-> NoPayload]

\* Variant: the X-Cache-Status header is left out.
RespNoHeader(status, cacheStatus, payload) ==
  [status |-> status, x_cache_status |-> "none", cache_status |-> cacheStatus,
   payload |-> payload]

\* A response: the status code, the X-Cache-Status header and the body, which
\* is the payload with cache_status added.  Every return of the handler that
\* sets the header sets both from the one variable cacheStatus.
Resp(status, cacheStatus, payload) ==
  [status |-> status, x_cache_status |-> cacheStatus, cache_status |-> cacheStatus,
   payload |-> payload]

NoEvent == [parses |-> FALSE, body |-> Body(Undefined, Undefined, Undefined, Undefined)]

IdleReq ==
  [pc |-> "idle", ev |-> NoEvent, sk |-> NoSK, nowIso |-> 0, gets |-> 0, got |-> FALSE,
   cached |-> NoEntry, cacheStatus |-> "miss", calls |-> 0, up |-> NoOutcome,
   payload |-> NoPayload, wrote |-> FALSE, resp |-> NoResp]

\* Variant: the payload of the entry is not checked.
cacheEvaluationNoValidity(cached, t, windowDays) ==
  IF withinWindowTest(t - cached.meta.last_refreshed_at,
                      cached.meta.consistency_window_days)
  THEN "hit" ELSE "stale"

\* The cache evaluation of a pinned request that found an entry: the status
\* first assigned, then the override for an invalid payload within the window.
cacheEvaluation(cached, t, windowDays) ==
  LET last == cached.meta.last_refreshed_at
      withinWindow ==
        withinWindowTest(t - last, cached.meta.consistency_window_days)
      payloadValid == isValidKpiPayload(cached.payload)
      first == IF withinWindow /\ payloadValid THEN "hit"
               ELSE IF ~withinWindow THEN "stale"
               ELSE IF ~payloadValid THEN "invalid"
               ELSE "miss"
  IN  IF withinWindow /\ ~payloadValid THEN "degraded" ELSE first

\* The handler from its entry to its first await of the upstream call:
\* JSON.parse, the brand_url test, buildSK, redis.get and the cache evaluation.
handlerStart(ev, getOk, t, st) ==
  LET base == [IdleReq EXCEPT !.ev = ev, !.nowIso = t]
  IN
  IF ~ev.parses
  THEN [base EXCEPT !.pc = "done", !.resp = Resp(500, "none", NoPayload)]
  ELSE IF Falsy(ev.body.brand_url)
  THEN [base EXCEPT !.pc = "done", !.resp = Resp(400, "none", NoPayload)]
  ELSE
    LET sk == skOf[ev.body]
        withSk == [base EXCEPT !.sk = sk, !.gets = 1]
    IN
    IF ~getOk
    THEN [withSk EXCEPT !.pc = "done", !.resp = Resp(500, "none", NoPayload)]
    ELSE
      LET cached == st[redisKey(sk)]
          found == [withSk EXCEPT !.got = TRUE, !.cached = cached]
      IN
      IF cached.present /\ modeOf(ev.body) = Pinned
      THEN LET cacheStatus == cacheEvaluation(cached, t, windowDaysOf(ev.body))
           IN  IF cacheStatus \in {"degraded", "hit"}
               THEN [found EXCEPT !.pc = "done", !.cacheStatus = cacheStatus,
                       !.resp = Resp(200, cacheStatus, Json(Spread(cached.payload)))]
               ELSE [found EXCEPT !.pc = "fetching", !.cacheStatus = cacheStatus,
                       !.calls = 1]
      ELSE [found EXCEPT !.pc = "fetching", !.cacheStatus = "miss", !.calls = 1]

\* Variant: the parsed payload is stored without the validity check.
handlerUpstreamUnchecked(r, outcome) ==
  IF outcome.kind \in {"throw", "text"}
  THEN [r EXCEPT !.pc = "done", !.up = outcome, !.resp = Resp(500, "none", NoPayload)]
  ELSE [r EXCEPT !.pc = "storing", !.up = outcome,
          !.payload = normaliseKpiPayload(outcome.payload)]

\* The handler from the upstream's answer to the store write: kpiRes.text(),
\* JSON.parse, the validity check and normaliseKpiPayload.
handlerUpstream(r, outcome) ==
  IF outcome.kind \in {"throw", "text"}
  THEN [r EXCEPT !.pc = "done", !.up = outcome, !.resp = Resp(500, "none", NoPayload)]
  ELSE IF ~isValidKpiPayload(outcome.payload)
  THEN [r EXCEPT !.pc = "done", !.up = outcome, !.resp = Resp(502, "none", NoPayload)]
  ELSE [r EXCEPT !.pc = "storing", !.up = outcome,
          !.payload = normaliseKpiPayload(outcome.payload)]

\* Variant: the entry is written without a TTL.
handlerEntryNoTtl(r, t) ==
  Entry(r.payload, r.sk, r.nowIso, windowDaysOf(r.ev.body), NoExpiry, "cache")

\* Variant: the TTL is that of the default window, whatever the request's.
handlerEntryDefaultTtl(r, t) ==
  Entry(r.payload, r.sk, r.nowIso, windowDaysOf(r.ev.body),
        t + DEFAULT_WINDOW_DAYS * TicksPerDay, "cache")

\* The entry the handler writes, and its TTL (ex: windowDays * 86400).
handlerEntry(r, t) ==
  Entry(r.payload, r.sk, r.nowIso, windowDaysOf(r.ev.body),
        t + windowDaysOf(r.ev.body) * TicksPerDay, "cache")

\* Variant: the response carries the payload as the upstream returned it.
handlerStoredRaw(r, setOk) ==
  IF setOk
  THEN [r EXCEPT !.pc = "done", !.wrote = TRUE,
          !.resp = Resp(200, r.cacheStatus, Json(Spread(r.up.payload)))]
  ELSE [r EXCEPT !.pc = "done", !.resp = Resp(500, "none", NoPayload)]

\* The handler after the store write: the 200 response, or the catch block.
handlerStored(r, setOk) ==
  IF setOk
  THEN [r EXCEPT !.pc = "done", !.wrote = TRUE,
          !.resp = Resp(200, r.cacheStatus, Json(Spread(r.payload)))]
  ELSE [r EXCEPT !.pc = "done", !.resp = Resp(500, "none", NoPayload)]

Begin(p, ev, getOk) ==
  /\ reqs[p].pc = "idle"
  /\ reqs' = [reqs EXCEPT ![p] = handlerStart(ev, getOk, now, store)]
  /\ UNCHANGED <<now, store, input, output, kpi>>

UpstreamReturn(p, outcome) ==
  /\ reqs[p].pc = "fetching"
  /\ reqs' = [reqs EXCEPT ![p] = handlerUpstream(reqs[p], outcome)]
  /\ UNCHANGED <<now, store, input, output, kpi>>

\* Variant: a write over an entry keeps that entry's meta.
StoreSetMerged(p, setOk) ==
  /\ reqs[p].pc = "storing"
  /\ reqs' = [reqs EXCEPT ![p] = handlerStored(reqs[p], setOk)]
  /\ store' = IF setOk
              THEN LET k == redisKey(reqs[p].sk)
                   IN  [store EXCEPT ![k] =
                          IF store[k].present
                          THEN [handlerEntry(reqs[p], now) EXCEPT !.meta = store[k].meta]
                          ELSE handlerEntry(reqs[p], now)]
              ELSE store
  /\ UNCHANGED <<now, input, output, kpi>>

\* Variant: the request is answered as after a write, but nothing is written.
StoreSetDropped(p, setOk) ==
  /\ reqs[p].pc = "storing"
  /\ reqs' = [reqs EXCEPT ![p] = handlerStored(reqs[p], setOk)]
  /\ UNCHANGED <<now, store, input, output, kpi>>

\* Variant: every write goes to one key of the store, whatever the request's.
StoreSetOneKey(p, setOk) ==
  /\ reqs[p].pc = "storing"
  /\ reqs' = [reqs EXCEPT ![p] = handlerStored(reqs[p], setOk)]
  /\ store' = IF setOk
              THEN [store EXCEPT ![CHOOSE k \in Keys : TRUE] = handlerEntry(reqs[p], now)]
              ELSE store
  /\ UNCHANGED <<now, input, output, kpi>>

StoreSet(p, setOk) ==
  /\ reqs[p].pc = "storing"
  /\ reqs' = [reqs EXCEPT ![p] = handlerStored(reqs[p], setOk)]
  /\ store' = IF setOk
              THEN [store EXCEPT ![redisKey(reqs[p].sk)] = handlerEntry(reqs[p], now)]
              ELSE store
  /\ UNCHANGED <<now, input, output, kpi>>

(***************************************************************************)
(* The earlier handler (netlify/ubiqitum-cache.ts): it serves a fresh      *)
(* entry in pinned mode and otherwise stores whatever JSON the upstream    *)
(* returned, unchecked and without a TTL.  Only its store write is state.  *)
(***************************************************************************)
earlierServes(cached, body, t) ==
  /\ cached.present
  /\ modeOf(body) = Pinned
  /\ withinWindowTest(t - cached.meta.last_refreshed_at,
                      cached.meta.consistency_window_days)

EarlierHandler(body, outcome) ==
  /\ \A p \in Procs : reqs[p].pc = "idle"
  /\ ~Falsy(body.brand_url)
  /\ outcome.kind = "json"
  /\ LET sk == skOf[body]
     IN  /\ ~earlierServes(store[redisKey(sk)], body, now)
         /\ store' = [store EXCEPT ![redisKey(sk)] =
                        Entry(outcome.payload, sk, now, windowDaysOf(body),
                              NoExpiry, "earlier")]
  /\ UNCHANGED <<now, reqs, input, output, kpi>>

(***************************************************************************)
(* Time.  A request takes no measurable part of a day: the clock advances  *)
(* only while no request is in flight.  An entry whose TTL has run out is  *)
(* removed by the store.  Deliver hands the response to the caller.        *)
(***************************************************************************)
expired(e, t) == e.present /\ e.expires_at # NoExpiry /\ t > e.expires_at

Tick ==
  /\ now < MaxTime
  /\ \A p \in Procs : reqs[p].pc = "idle"
  /\ now' = now + 1
  /\ store' = [k \in Keys |-> IF expired(store[k], now + 1) THEN NoEntry ELSE store[k]]
  /\ UNCHANGED <<reqs, input, output, kpi>>

Deliver(p) ==
  /\ reqs[p].pc = "done"
  /\ reqs' = [reqs EXCEPT ![p] = IdleReq]
  /\ UNCHANGED <<now, store, input, output, kpi>>

(***************************************************************************)
(* A request of the KPI handler (netlify/functions/ubiqitum-kpi.ts) and    *)
(* the modelRequest call it is in.  pc is where the request stands: idle,  *)
(* "fetch" (awaiting fetch), "json" (awaiting resp.json()), "returned"     *)
(* (modelRequest has returned to the retry loop), "done" (answered).       *)
(* timer is the abort timer of the call: none, armed, or cleared; sent is   *)
(* the max_tokens of the calls made so far.                                *)
(***************************************************************************)
NoJson == [kind |-> "none", f |-> [k \in {} |-> Null]]

Result(ok, reason, json) == [ok |-> ok, reason |-> reason, json |-> json]

NoResult == Result(FALSE, "none", NoJson)

\* The body of the model's HTTP response as resp.json() gives it, reduced to
\* the three fields modelRequest reads: error.message, and the first
\* choice's finish_reason and message.content.
Data(message, finish, content) ==
  [message |-> message, finish |-> finish, content |-> content]

\* resp.json().catch(() => ({})): the object of a body that is no JSON.
EmptyData == Data(Undefined, Undefined, Undefined)

KpiResp(status, detail, out) == [status |-> status, detail |-> detail, output |-> out]

NoKpiResp == KpiResp(0, "none", NoJson)

IdleKpi ==
  [pc |-> "idle", ev |-> NoEvent, brand_url |-> <<>>, attempt |-> 0, calls |-> 0,
   sent |-> <<>>, timer |-> "none", delay |-> 0, aborted |-> FALSE, respOk |-> FALSE,
   data |-> EmptyData, result |-> NoResult, resp |-> NoKpiResp, responses |-> 0]

NoInput == [kind |-> "none"]

NoOutput == [ready |-> FALSE]

Init ==
  /\ now = 0
  /\ store = [k \in Keys |-> NoEntry]
  /\ reqs = [p \in {1} |-> IdleReq]
  /\ input = NoInput
  /\ output = NoOutput
  /\ kpi = IdleKpi

Next ==
  \/ \E p \in Procs, ev \in Events, getOk \in BOOLEAN : Begin(p, ev, getOk)
  \/ \E p \in Procs, outcome \in UpstreamOutcomes : UpstreamReturn(p, outcome)
  \/ \E p \in Procs, setOk \in BOOLEAN : StoreSet(p, setOk)
  \/ \E body \in Bodies, outcome \in UpstreamOutcomes : EarlierHandler(body, outcome)
  \/ \E p \in Procs : Deliver(p)
  \/ Tick

Spec == Init /\ [][Next]_vars

(***************************************************************************)
(* Vocabulary of the properties.                                           *)
(***************************************************************************)
Answered(p) == reqs[p].pc = "done"

\* The request asks for pinned mode (the default), or for live mode.
IsPinned(r) == r.ev.body.stability_mode \in {Undefined, Str(Pinned)}

IsLive(r) == r.ev.body.stability_mode = Str(Live)

\* Age of the entry a request found, and that entry's window, in ticks.
AgeTicks(r) == r.nowIso - r.cached.meta.last_refreshed_at

WindowTicks(r) == r.cached.meta.consistency_window_days * TicksPerDay

\* A benchmark field is present when it is neither missing, null nor empty,
\* and finite when its numeric reading is a finite number.
PresentAndFinite(v) ==
  /\ v.t \notin {"undefined", "null"}
  /\ ~(v.t = "string" /\ v.s = <<>>)
  /\ Number(v).t = "number"

BenchmarkCount(payload) ==
  Cardinality({k \in BenchmarkFields : PresentAndFinite(payload.f[k])})

ValidPayload(payload) == payload.obj /\ BenchmarkCount(payload) >= 3

UpstreamFailed(r) == r.up.kind \in {"throw", "text"}

KeyOf(r) == redisKey(r.sk)

(***************************************************************************)
(* C1.  Miss then hit: a request that finds no entry and whose upstream    *)
(* returns a valid payload is answered 200 "miss" and leaves an entry      *)
(* holding the payload it answered; a pinned request that finds an entry   *)
(* written by the cache handler within its window is answered "hit" with   *)
(* that entry's payload and without an upstream call.                      *)
(***************************************************************************)
C1_MissThenHit ==
  \A p \in Procs :
    LET r == reqs[p] IN
    /\ ( Answered(p) /\ r.got /\ ~r.cached.present /\ r.wrote )
         => /\ r.resp.status = 200
            /\ r.resp.cache_status = "miss"
            /\ store[KeyOf(r)].present
            /\ store[KeyOf(r)].payload = r.resp.payload
    /\ ( Answered(p) /\ IsPinned(r) /\ r.cached.present /\ r.cached.by = "cache"
         /\ AgeTicks(r) <= WindowTicks(r) )
         => /\ r.resp.status = 200
            /\ r.resp.cache_status = "hit"
            /\ r.resp.payload = r.cached.payload
            /\ r.calls = 0

C1_Witness ==
  \E p \in Procs :
    /\ Answered(p) /\ IsPinned(reqs[p])
    /\ reqs[p].cached.present /\ reqs[p].cached.by = "cache"
    /\ reqs[p].cached.payload.f["sector_relevance_avg_percent"] = Num(0)
    /\ AgeTicks(reqs[p]) > 0
    /\ reqs[p].resp.cache_status = "hit"

(***************************************************************************)
(* C2.  Degraded serve: when the upstream call fails and the request found *)
(* an entry for its SK, the answer is 200, classified degraded, with the   *)
(* cached payload.                                                         *)
(***************************************************************************)
C2_DegradedOnUpstreamFailure ==
  \A p \in Procs :
    ( Answered(p) /\ reqs[p].calls = 1 /\ UpstreamFailed(reqs[p])
      /\ reqs[p].cached.present )
      => /\ reqs[p].resp.status = 200
         /\ reqs[p].resp.cache_status = "degraded"
         /\ reqs[p].resp.payload = Json(Spread(reqs[p].cached.payload))

(***************************************************************************)
(* C3.  Invalid entry: a pinned request that finds an entry within its     *)
(* window whose payload fails the validity check calls the upstream before *)
(* it answers, and answers degraded only after that call has failed.       *)
(***************************************************************************)
C3_InvalidEntryRefreshes ==
  \A p \in Procs :
    LET r == reqs[p] IN
    ( Answered(p) /\ IsPinned(r) /\ r.cached.present
      /\ AgeTicks(r) <= WindowTicks(r) /\ ~ValidPayload(r.cached.payload) )
      => /\ r.calls = 1
         /\ (r.resp.cache_status = "degraded" => UpstreamFailed(r))

(***************************************************************************)
(* C4.  Writes only on success: a request of the cache handler reaches its *)
(* store write only with an upstream answer that parsed and passed the     *)
(* validity check, a request whose upstream failed or returned an invalid  *)
(* payload has written nothing, and every entry the cache handler wrote    *)
(* holds a valid payload.                                                  *)
(***************************************************************************)
C4_WritesOnlyValid ==
  /\ \A p \in Procs :
       LET r == reqs[p] IN
       /\ (r.pc = "storing" \/ r.wrote)
            => r.up.kind = "json" /\ ValidPayload(r.up.payload)
       /\ (Answered(p) /\ (r.up.kind # "json" \/ ~ValidPayload(r.up.payload)))
            => ~r.wrote /\ (r.got => store[KeyOf(r)] = r.cached)
  /\ \A k \in Keys :
       (store[k].present /\ store[k].by = "cache") => ValidPayload(store[k].payload)

C4_Witness ==
  \E p \in Procs :
    /\ Answered(p) /\ reqs[p].wrote
    /\ reqs[p].cached.present /\ ~ValidPayload(reqs[p].cached.payload)
    /\ store[KeyOf(reqs[p])].by = "cache"

(***************************************************************************)
(* C5.  A hit has no effect: a request answered "hit" is pinned, found an  *)
(* entry within its window with a valid payload, made no upstream call and *)
(* no store write, left the entry as it found it and answered the entry's  *)
(* payload, field for field.                                               *)
(***************************************************************************)
C5_HitServesVerbatim ==
  \A p \in Procs :
    LET r == reqs[p] IN
    ( Answered(p) /\ r.resp.cache_status = "hit" )
      => /\ IsPinned(r) /\ r.cached.present
         /\ AgeTicks(r) <= WindowTicks(r)
         /\ ValidPayload(r.cached.payload)
         /\ r.calls = 0 /\ r.up = NoOutcome
         /\ ~r.wrote
         /\ store[KeyOf(r)] = r.cached
         /\ r.resp.status = 200
         /\ \A k \in PayloadKeys : r.resp.payload.f[k] = store[KeyOf(r)].payload.f[k]

C5_Witness ==
  \E p \in Procs :
    /\ Answered(p) /\ reqs[p].resp.cache_status = "hit"
    /\ reqs[p].cached.by = "earlier"
    /\ reqs[p].cached.payload.f["brand_awareness_percent"] = Str(<<"7">>)

(***************************************************************************)
(* C6.  The freshness test is inclusive: a pinned request that finds an    *)
(* entry with a valid payload classifies it hit when the entry's age is at *)
(* most its window, the age equal to the window included, and stale when   *)
(* the age is greater.                                                     *)
(***************************************************************************)
C6_WindowInclusive ==
  \A p \in Procs :
    LET r == reqs[p] IN
    ( r.pc # "idle" /\ IsPinned(r) /\ r.cached.present
      /\ ValidPayload(r.cached.payload) )
      => /\ (AgeTicks(r) = WindowTicks(r) => r.cacheStatus = "hit")
         /\ (AgeTicks(r) < WindowTicks(r) => r.cacheStatus = "hit")
         /\ (AgeTicks(r) > WindowTicks(r) => r.cacheStatus = "stale")

C6_Witness ==
  \E p \in Procs :
    /\ Answered(p) /\ IsPinned(reqs[p]) /\ reqs[p].cached.present
    /\ ValidPayload(reqs[p].cached.payload)
    /\ AgeTicks(reqs[p]) = WindowTicks(reqs[p])
    /\ reqs[p].resp.cache_status = "hit"

C6_WitnessStale ==
  \E p \in Procs :
    /\ reqs[p].pc = "fetching" /\ IsPinned(reqs[p]) /\ reqs[p].cached.present
    /\ ValidPayload(reqs[p].cached.payload)
    /\ AgeTicks(reqs[p]) = WindowTicks(reqs[p]) + 1
    /\ reqs[p].cacheStatus = "stale"

(***************************************************************************)
(* C8.  Live mode: a live request whose store read returned calls the      *)
(* upstream whatever it found, uses the key a pinned request with the same *)
(* identity fields uses, and writes only a payload that passed the         *)
(* validity check.                                                         *)
(***************************************************************************)
PinnedTwin(body) == [body EXCEPT !.stability_mode = Undefined]

C8_LiveAlwaysRefreshes ==
  \A p \in Procs :
    LET r == reqs[p] IN
    ( r.pc # "idle" /\ r.got /\ IsLive(r) )
      => /\ r.calls = 1
         /\ (Answered(p) => r.up # NoOutcome)
         /\ r.sk = buildSK(PinnedTwin(r.ev.body))
         /\ (r.wrote => ValidPayload(r.up.payload) /\ store[redisKey(buildSK(PinnedTwin(r.ev.body)))].present)
         /\ ((Answered(p) /\ r.up.kind = "json" /\ ~ValidPayload(r.up.payload))
               => ~r.wrote /\ r.resp.status = 502)

C8_Witness ==
  \E p \in Procs :
    /\ Answered(p) /\ IsLive(reqs[p]) /\ reqs[p].wrote
    /\ reqs[p].cached.present /\ ValidPayload(reqs[p].cached.payload)
    /\ AgeTicks(reqs[p]) <= WindowTicks(reqs[p])
    /\ reqs[p].resp.payload # reqs[p].cached.payload

(***************************************************************************)
(* C9.  As claimed: every upstream call that succeeds leaves an entry      *)
(* written by its request, whatever the payload.                           *)
(***************************************************************************)
C9_EverySuccessWrites ==
  \A p \in Procs :
    LET r == reqs[p] IN
    ( Answered(p) /\ r.up.kind = "json" /\ r.resp.status # 500 )
      => /\ r.wrote
         /\ store[KeyOf(r)].present
         /\ store[KeyOf(r)].meta.last_refreshed_at = r.nowIso

(***************************************************************************)
(* C9, amended.  Every upstream call that returns a payload passing the    *)
(* validity check, followed by a store write that succeeds, leaves a fresh *)
(* entry written by its request, whatever the prior state; an entry the    *)
(* cache handler wrote classifies as hit for as long as it is within its   *)
(* window, and the pinned request that finds it is answered hit.           *)
(***************************************************************************)
C9_ValidSuccessWritesFresh ==
  /\ \A p \in Procs :
       LET r == reqs[p] IN
       /\ ( Answered(p) /\ r.up.kind = "json" /\ ValidPayload(r.up.payload)
            /\ r.resp.status # 500 )
            => /\ r.wrote
               /\ store[KeyOf(r)] = handlerEntry(r, r.nowIso)
               /\ store[KeyOf(r)].meta.last_refreshed_at = now
               /\ cacheEvaluation(store[KeyOf(r)], now, windowDaysOf(r.ev.body)) = "hit"
       /\ ( Answered(p) /\ IsPinned(r) /\ r.cached.present /\ r.cached.by = "cache" )
            => r.resp.cache_status = "hit"
  /\ \A k \in Keys :
       ( store[k].present /\ store[k].by = "cache" )
         => /\ now - store[k].meta.last_refreshed_at
                 <= store[k].meta.consistency_window_days * TicksPerDay
            /\ cacheEvaluation(store[k], now, DEFAULT_WINDOW_DAYS) = "hit"

C9_Witness ==
  \E p \in Procs :
    /\ Answered(p) /\ IsPinned(reqs[p]) /\ reqs[p].wrote
    /\ reqs[p].cacheStatus = "stale"
    /\ reqs[p].cached.present /\ ~ValidPayload(reqs[p].cached.payload)
    /\ cacheEvaluation(store[KeyOf(reqs[p])], now, DEFAULT_WINDOW_DAYS) = "hit"

(***************************************************************************)
(* C11.  The SK depends only on the identity fields: the SK of a request,  *)
(* and the key it reads and writes, is the SK of every request body that   *)
(* agrees with it on brand_url, brand_name, market, sector, segment,       *)
(* timeframe, industry_definition and seed, whatever the two requests'     *)
(* stability_mode and consistency_window_days, the time, the store and the *)
(* upstream answers so far.                                                *)
(***************************************************************************)
IdentityFields(body) ==
  <<body.brand_url, body.brand_name, body.market, body.sector, body.segment,
    body.timeframe, body.industry_definition, body.seed>>

C11_SKOfIdentityOnly ==
  \A p \in Procs :
    LET r == reqs[p]
    IN  r.sk # NoSK =>
          \A b \in Bodies :
            IdentityFields(b) = IdentityFields(r.ev.body) =>
              /\ r.sk = skOf[b]
              /\ (r.got => r.cached = store[redisKey(skOf[b])] \/ r.wrote)

C11_Witness ==
  \E p \in Procs :
    LET r == reqs[p]
    IN  /\ Answered(p) /\ r.wrote /\ now > 0
        /\ r.ev.body.stability_mode = Str(Live)
        /\ r.ev.body.consistency_window_days = Num(1)
        /\ r.cached.present /\ r.cached.payload # r.payload
        /\ r.sk = skOf[Body(Str(ExampleCom), Num(2), Undefined, Undefined)]

\* The upstream call of a request did not give a valid payload: the fetch
\* threw, the text was no JSON, or the JSON failed the validity check.
UpstreamGaveNothing(r) ==
  r.calls = 1 /\ (UpstreamFailed(r) \/ (r.up.kind = "json" /\ ~ValidPayload(r.up.payload)))

(***************************************************************************)
(* C24.  Upstream failure without an entry: a request that found no entry  *)
(* for its SK and whose upstream call threw, returned a text that is no    *)
(* JSON, or returned a payload that fails the validity check, is answered  *)
(* with a 5xx status, and the store holds no entry for the SK afterwards.  *)
(***************************************************************************)
C24_FailureWithoutEntryIsError ==
  \A p \in Procs :
    LET r == reqs[p]
    IN  ( Answered(p) /\ r.got /\ ~r.cached.present /\ UpstreamGaveNothing(r) )
        => /\ r.resp.status \in {500, 502}
           /\ ~r.wrote
           /\ ~store[KeyOf(r)].present

C24_Witness ==
  \E p \in Procs :
    LET r == reqs[p]
    IN  /\ Answered(p) /\ r.got /\ ~r.cached.present
        /\ r.up.kind = "json" /\ r.up.payload = EmptyObject
        /\ r.resp.status = 502
        /\ ~store[KeyOf(r)].present

(***************************************************************************)
(* C25.  A failing store read is not fatal: a request whose redis.get      *)
(* threw goes on as after a miss, calls the upstream, and is not answered  *)
(* with the error of the store.                                            *)
(***************************************************************************)
C25_GetFailureProceedsAsMiss ==
  \A p \in Procs :
    LET r == reqs[p]
    IN  ( r.pc # "idle" /\ r.gets = 1 /\ ~r.got )
        => /\ r.calls = 1
           /\ r.cacheStatus = "miss"
           /\ (Answered(p) /\ r.up.kind = "json" /\ ValidPayload(r.up.payload)
                 => r.resp.status = 200)

(***************************************************************************)
(* C26.  A failing store write does not block: a request whose upstream    *)
(* returned a valid payload and whose redis.set threw is answered 200 with *)
(* the payload it computed.                                                *)
(***************************************************************************)
C26_SetFailureStillAnswers ==
  \A p \in Procs :
    LET r == reqs[p]
    IN  ( Answered(p) /\ r.up.kind = "json" /\ ValidPayload(r.up.payload) /\ ~r.wrote )
        => /\ r.resp.status = 200
           /\ r.resp.payload = Json(Spread(r.payload))

\* The window a request asks for, in days: its consistency_window_days, or
\* 180 when the request leaves it out.
RequestedDays(r) ==
  IF r.ev.body.consistency_window_days = Undefined
  THEN 180 ELSE r.ev.body.consistency_window_days.n

(***************************************************************************)
(* C27.  TTL and window: a store write of the cache handler keeps the      *)
(* entry for the request's consistency_window_days (180 when left out),    *)
(* counted from the write, and stores that number of days in the entry's   *)
(* meta; so every entry the cache handler wrote expires its meta's window  *)
(* after it was written.                                                   *)
(***************************************************************************)
C27_TtlIsWindow ==
  /\ \A p \in Procs :
       LET r == reqs[p]
           e == store[KeyOf(r)]
       IN  ( Answered(p) /\ r.wrote )
           => /\ e.present /\ e.by = "cache"
              /\ e.meta.consistency_window_days = RequestedDays(r)
              /\ e.expires_at - now = RequestedDays(r) * TicksPerDay
  /\ \A k \in Keys :
       ( store[k].present /\ store[k].by = "cache" )
       => store[k].expires_at - store[k].meta.last_refreshed_at
            = store[k].meta.consistency_window_days * TicksPerDay

C27_Witness ==
  \E p \in Procs :
    LET r == reqs[p]
    IN  /\ Answered(p) /\ r.wrote
        /\ r.ev.body.consistency_window_days = Num(1)
        /\ store[KeyOf(r)].expires_at = now + TicksPerDay
        /\ store[KeyOf(r)].meta.consistency_window_days = 1

\* The cache_status the claim assigns to a request that is answered 200.
StatusByTable(r) ==
  IF IsPinned(r) /\ r.cached.present
  THEN IF AgeTicks(r) <= WindowTicks(r)
       THEN IF ValidPayload(r.cached.payload) THEN "hit" ELSE "degraded"
       ELSE "stale"
  ELSE "miss"

(***************************************************************************)
(* C33.  cache_status is a function of mode, entry found, within window    *)
(* and payload valid: a 200 answer reports hit for a pinned request that   *)
(* found a valid entry within its window, degraded for one that found an   *)
(* invalid entry within its window, stale after the refresh of an entry    *)
(* found outside its window, miss after a compute with no entry or in live *)
(* mode; invalid is never reported, and the body's cache_status is the     *)
(* X-Cache-Status header.                                                  *)
(***************************************************************************)
C33_StatusIsFunction ==
  \A p \in Procs :
    LET r == reqs[p]
    IN  Answered(p)
        => /\ r.resp.cache_status = r.resp.x_cache_status
           /\ r.resp.cache_status # "invalid"
           /\ r.resp.status = 200
                => /\ r.resp.cache_status = StatusByTable(r)
                   /\ r.resp.cache_status \in {"hit", "degraded"}
                        => r.calls = 0 /\ ~r.wrote
                   /\ r.resp.cache_status \in {"stale", "miss"}
                        => r.calls = 1 /\ r.wrote
           /\ r.resp.status # 200 => r.resp.cache_status = "none"

C33_Witness ==
  \E p \in Procs :
    LET r == reqs[p]
    IN  /\ Answered(p) /\ r.resp.status = 200
        /\ r.resp.cache_status = "stale" /\ r.resp.x_cache_status = "stale"
        /\ IsPinned(r) /\ r.cached.present
        /\ ~ValidPayload(r.cached.payload)
        /\ AgeTicks(r) > WindowTicks(r)

\* The keys of the store whose entry a step changes.
KeysChanged == {k \in Keys : store'[k] # store[k]}

\* A step of request p from one position of the handler to another.
StepOf(p, from, to) == reqs[p].pc = from /\ reqs'[p].pc = to

(***************************************************************************)
(* C35.  Keys and entries agree, and a request touches one key: every      *)
(* entry of the store lies under the key 'ubiqitum:sk:' + K of the K in    *)
(* its meta.sk; a request reads the store at most once, at the key of its  *)
(* own SK, and what it found is the entry under that key; its write        *)
(* changes no other key; its other steps, and its read, change no key;     *)
(* and no handler changes more than one key in a step.                     *)
(***************************************************************************)
C35_OneKeyPerSK ==
  /\ [](\A k \in Keys : store[k].present => redisKey(store[k].meta.sk) = k)
  /\ [][\A p \in Procs :
          /\ reqs[p].pc = "idle" /\ reqs'[p].pc # "idle"
               => /\ reqs'[p].gets <= 1
                  /\ reqs'[p].got => reqs'[p].cached = store[KeyOf(reqs'[p])]
                  /\ KeysChanged = {}
          /\ StepOf(p, "storing", "done")
               => /\ KeysChanged \subseteq {KeyOf(reqs[p])}
                  /\ reqs'[p].wrote => store'[KeyOf(reqs[p])].meta.sk = reqs[p].sk
          /\ StepOf(p, "fetching", "storing") \/ StepOf(p, "fetching", "done")
             \/ StepOf(p, "done", "idle")
               => KeysChanged = {}
          /\ now' = now => Cardinality(KeysChanged) <= 1]_vars

\* A request has written its entry while another SK has its own.
C35_Witness ==
  \E p \in Procs :
    /\ Answered(p) /\ reqs[p].wrote
    /\ store[KeyOf(reqs[p])].present
    /\ store[KeyOf(reqs[p])].meta.sk = reqs[p].sk
    /\ \E k \in Keys \ {KeyOf(reqs[p])} : store[k].present /\ store[k].by = "cache"

(***************************************************************************)
(* isValidKpiPayload as a function: the input is any payload whose         *)
(* benchmark fields are drawn from FieldValues, or a non-object.           *)
(***************************************************************************)
True == Val("boolean", 1, <<>>)

FieldValues ==
  { Undefined, Null, Num(0), Num(42), NaN, Infinity, True,
    Str(<<>>), Str(<<"1","2">>), Str(<<"n","/","a">>) }

ValidityInputs ==
  { [obj |-> TRUE, f |-> [k \in PayloadKeys |-> IF k \in BenchmarkFields THEN g[k] ELSE Num(50)]] :
      g \in [BenchmarkFields -> FieldValues] }
  \cup {NonObject}

InitValidity ==
  /\ now = 0
  /\ store = [k \in Keys |-> NoEntry]
  /\ reqs = [p \in {1} |-> IdleReq]
  /\ input \in ValidityInputs
  /\ output = NoOutput
  /\ kpi = IdleKpi

ApplyIsValid ==
  /\ ~output.ready
  /\ output' = [ready |-> TRUE, valid |-> isValidKpiPayload(input)]
  /\ UNCHANGED <<now, store, reqs, input, kpi>>

NextValidity == ApplyIsValid

SpecValidity == InitValidity /\ [][NextValidity]_vars

PresentCount(payload) ==
  Cardinality({k \in BenchmarkFields : payload.f[k].t \notin {"undefined", "null"}})

(***************************************************************************)
(* C7.  isValidKpiPayload is true exactly when at least 3 of the 4         *)
(* benchmark fields are present and finite; it is false for every payload  *)
(* with exactly 2 of the 4 present, and true for every payload with        *)
(* exactly 3 of the 4 present when those 3 are finite.                     *)
(***************************************************************************)
C7_ThreeOfFour ==
  output.ready =>
    /\ output.valid <=> (input.obj /\ BenchmarkCount(input) >= 3)
    /\ (input.obj /\ PresentCount(input) = 2) => ~output.valid
    /\ (input.obj /\ PresentCount(input) = 3 /\ BenchmarkCount(input) = 3) => output.valid

C7_Witness ==
  /\ output.ready /\ output.valid
  /\ PresentCount(input) = 3 /\ BenchmarkCount(input) = 3
  /\ input.f["brand_awareness_percent"] = Null

C7_WitnessTwo ==
  /\ output.ready /\ ~output.valid /\ input.obj
  /\ PresentCount(input) = 2 /\ BenchmarkCount(input) = 2

(***************************************************************************)
(* buildSK as a function: the input is a pair of requests, a plain one and *)
(* a variant of it that differs in the ways the canonicalization is meant  *)
(* to absorb.                                                              *)
(***************************************************************************)
toUpperCaseChar(c) ==
  IF \E i \in 1..26 : LowerChars[i] = c
  THEN UpperChars[CHOOSE i \in 1..26 : LowerChars[i] = c]
  ELSE c

toUpperCase(s) == [i \in 1..Len(s) |-> toUpperCaseChar(s[i])]

Capitalise(s) == IF s = <<>> THEN s ELSE <<toUpperCaseChar(s[1])>> \o Tail(s)

Nike == <<"n","i","k","e">>
GlobalLower == <<"g","l","o","b","a","l">>
Uk == <<"u","k">>

SkBases ==
  [host : {ExampleCom}, brand : {<<>>, Nike},
   market : {GlobalLower, Uk}, seed : {Undefined, Num(2)}]

Ident(url, brand, market, segment, timeframe, seed) ==
  [brand_url |-> url, brand_name |-> brand, market |-> market,
   sector |-> Undefined, segment |-> segment, timeframe |-> timeframe,
   industry_definition |-> Undefined, seed |-> seed,
   stability_mode |-> Undefined, consistency_window_days |-> Undefined]

\* A value given in lower case, or left out when it is the default or empty.
PlainField(x, dflt) == IF x = dflt \/ x = <<>> THEN Undefined ELSE Str(x)

FieldVariants(x, dflt) ==
  {Str(x), Str(toUpperCase(x))}
  \cup (IF x = dflt \/ x = <<>> THEN {Undefined} ELSE {})

UrlVariants(h) ==
  { lead \o scheme \o www \o host \o rest \o trail :
      lead \in {<<>>, <<" ">>},
      scheme \in {<<>>, <<"H","T","T","P",":","/","/">>,
                  <<"h","t","t","p","s",":","/","/">>},
      www \in {<<>>, <<"W","W","W",".">>},
      host \in {h, Capitalise(h)},
      rest \in {<<>>, <<"/">>, <<"?","q","#","f">>},
      trail \in {<<>>, <<"\t", " ">>} }

PlainIdent(base) ==
  Ident(Str(base.host), PlainField(base.brand, <<>>), PlainField(base.market, GlobalLower),
        Undefined, Undefined, base.seed)

IdentVariants(base) ==
  { Ident(Str(u), b, m, sg, tf, base.seed) :
      u \in UrlVariants(base.host),
      b \in FieldVariants(base.brand, <<>>),
      m \in FieldVariants(base.market, GlobalLower),
      sg \in {Undefined, Str(<<"b","2","c">>)},
      tf \in {Undefined, Str(<<"C","U","R","R","E","N","T">>)} }

InitSK ==
  /\ now = 0
  /\ store = [k \in Keys |-> NoEntry]
  /\ reqs = [p \in {1} |-> IdleReq]
  /\ \E base \in SkBases : \E v \in IdentVariants(base) :
       input = [a |-> PlainIdent(base), b |-> v]
  /\ output = NoOutput
  /\ kpi = IdleKpi

ApplyBuildSK ==
  /\ ~output.ready
  /\ output' = [ready |-> TRUE, a |-> buildSK(input.a), b |-> buildSK(input.b)]
  /\ UNCHANGED <<now, store, reqs, input, kpi>>

NextSK == ApplyBuildSK

SpecSK == InitSK /\ [][NextSK]_vars

(***************************************************************************)
(* C10.  buildSK gives one SK to requests whose brand_url differ only in   *)
(* letter case, surrounding white space, an http/https scheme, a trailing  *)
(* path, query or fragment, or a leading www. label, and whose other       *)
(* identity fields differ only in letter case or in being left out versus  *)
(* set to the default; 'https://WWW.Example.com/' and 'example.com' with   *)
(* seed 2 give one SK.                                                     *)
(***************************************************************************)
C10_VariantsShareSK ==
  /\ output.ready => output.a = output.b
  /\ buildSK(Body(Str(ExampleUrl), Num(2), Undefined, Undefined))
       = buildSK(Body(Str(ExampleCom), Num(2), Undefined, Undefined))

C10_Witness ==
  /\ output.ready
  /\ input.a.brand_url = Str(ExampleCom) /\ input.b.brand_url = Str(ExampleUrl)
  /\ input.a.market = Undefined /\ input.b.market = Str(<<"G","L","O","B","A","L">>)
  /\ input.a.seed = Num(2)
  /\ output.a = output.b

(***************************************************************************)
(* computeSK of the decision handler (ubiqitumCacheOrchestrator.ts): the   *)
(* resolved fields joined with '|' and hashed.                             *)
(***************************************************************************)
computeSKInput(canonical_domain, brand_name, market, sector, segment, timeframe, industry_definition, seed) ==
  << canonical_domain,
     toLowerCase(brand_name),
     toLowerCase(market),
     toLowerCase(sector),
     toLowerCase(segment),
     timeframe,
     IF industry_definition.t \in {"undefined", "null"}
     THEN <<>> ELSE toLowerCase(industry_definition.s),
     intToString(seed),
     SCHEMA_VERSION >>

computeSK(canonical_domain, brand_name, market, sector, segment, timeframe, industry_definition, seed) ==
  sha256(join(computeSKInput(canonical_domain, brand_name, market, sector, segment,
                             timeframe, industry_definition, seed), <<"|">>))

(***************************************************************************)
(* The key builders on pairs of descriptors whose brand_name and market    *)
(* are free text: with white space around it, with the separator in it.    *)
(***************************************************************************)
FreeTexts ==
  { <<"a">>, <<" ","a">>, <<"a"," ">>, <<"a","|","b">>, <<"b","|","c">>, <<"c">> }

Descriptor(brand, market) ==
  Ident(Str(ExampleCom), Str(brand), Str(market), Undefined, Undefined, Num(2))

Descriptors == { Descriptor(b, m) : b \in FreeTexts, m \in FreeTexts }

General == <<"G","e","n","e","r","a","l">>
B2C == <<"B","2","C">>
Current == <<"C","u","r","r","e","n","t">>

\* The parts computeSK joins for a descriptor resolved as the decision
\* handler resolves it (sector "General", segment "B2C", timeframe "Current").
computeSKInputOf(d) ==
  computeSKInput(canonicalDomain(d.brand_url.s), d.brand_name.s, d.market.s,
                 General, B2C, Current, Null, d.seed.n)

InitDescriptors ==
  /\ now = 0
  /\ store = [k \in Keys |-> NoEntry]
  /\ reqs = [p \in {1} |-> IdleReq]
  /\ \E a \in Descriptors, b \in Descriptors : input = [a |-> a, b |-> b]
  /\ output = NoOutput
  /\ kpi = IdleKpi

ApplyKeyBuilders ==
  /\ ~output.ready
  /\ output' =
       [ready |-> TRUE,
        a |-> buildSK(input.a), b |-> buildSK(input.b),
        partsA |-> skParts(input.a), partsB |-> skParts(input.b),
        joinedA |-> join(skParts(input.a), <<"|">>),
        joinedB |-> join(skParts(input.b), <<"|">>),
        inputA |-> computeSKInputOf(input.a), inputB |-> computeSKInputOf(input.b),
        computedA |-> sha256(join(computeSKInputOf(input.a), <<"|">>)),
        computedB |-> sha256(join(computeSKInputOf(input.b), <<"|">>))]
  /\ UNCHANGED <<now, store, reqs, input, kpi>>

NextDescriptors == ApplyKeyBuilders

SpecDescriptors == InitDescriptors /\ [][NextDescriptors]_vars

\* Two values that differ at most by leading or trailing white space.
SameUpToSpace(x, y) == x.t = y.t /\ x.n = y.n /\ trim(x.s) = trim(y.s)

(***************************************************************************)
(* C12.  White space around a field: two requests whose brand_name,        *)
(* market, sector, segment, timeframe or industry_definition differ only   *)
(* by leading or trailing white space get the same SK from buildSK.        *)
(***************************************************************************)
C12_FieldWhitespaceIgnored ==
  ( /\ output.ready
    /\ input.a.brand_url = input.b.brand_url /\ input.a.seed = input.b.seed
    /\ SameUpToSpace(input.a.brand_name, input.b.brand_name)
    /\ SameUpToSpace(input.a.market, input.b.market)
    /\ SameUpToSpace(input.a.sector, input.b.sector)
    /\ SameUpToSpace(input.a.segment, input.b.segment)
    /\ SameUpToSpace(input.a.timeframe, input.b.timeframe)
    /\ SameUpToSpace(input.a.industry_definition, input.b.industry_definition) )
  => output.a = output.b

\* The separator occurs in none of the parts.
SeparatorFree(parts) ==
  \A i \in 1..Len(parts) : \A j \in 1..Len(parts[i]) : parts[i][j] # "|"

(***************************************************************************)
(* C13.  The separator: '|' occurs in none of the nine parts that buildSK  *)
(* and computeSK join, and two descriptors that differ in one of their     *)
(* resolved parts never give the same joined string (nor the same SK).     *)
(***************************************************************************)
C13_SeparatorOnlyBetweenParts ==
  output.ready =>
    /\ SeparatorFree(output.partsA) /\ SeparatorFree(output.inputA)
    /\ (output.partsA # output.partsB =>
          output.joinedA # output.joinedB /\ output.a # output.b)
    /\ (output.inputA # output.inputB => output.computedA # output.computedB)

(***************************************************************************)
(* The numeric normaliser of the KPI function (ubiqitum-kpi.ts):           *)
(* normaliseScores, the later normalise, and the normalise of the draft    *)
(* in unnamed/part_004.  Numbers are counted in thousandths, so 50.01 is   *)
(* 50010 and the nudge of 0.01 is 10; a JSON object is a function from its *)
(* keys to values.                                                         *)
(***************************************************************************)
REQUIRED_KEYS ==
  << "brand_name", "canonical_domain", "ubiqitum_market", "ubiqitum_sector",
     "brand_relevance_percent", "sector_relevance_avg_percent",
     "brand_awareness_percent", "sector_awareness_avg_percent",
     "brand_consideration_percent", "brand_trust_percent",
     "ubiqitum_overallagainastallcompany_score" >>

RequiredKeys == { REQUIRED_KEYS[i] : i \in 1..Len(REQUIRED_KEYS) }

\* json[k]
Get(json, k) == IF k \in DOMAIN json THEN json[k] ELSE Undefined

\* Math.max(0, Math.min(100, x))
clamp(x) == IF x < 0 THEN 0 ELSE IF x > 100000 THEN 100000 ELSE x

\* Math.round((x + Number.EPSILON) * 100) / 100: to the hundredth, a half up.
round2(x) == ((x + 5) \div 10) * 10

\* x.toFixed(2)
toFixed(x) ==
  LET h == ((IF x < 0 THEN 0 - x ELSE x) + 5) \div 10
  IN  (IF x < 0 THEN <<"-">> ELSE <<>>)
      \o natToString(h \div 100)
      \o <<".">> \o <<DigitChars[((h \div 10) % 10) + 1], DigitChars[(h % 10) + 1]>>

endsWith(s, p) ==
  Len(s) >= Len(p) /\ SubSeq(s, Len(s) - Len(p) + 1, Len(s)) = p

\* parseFloat of a text with two decimals.
parseFloat(s) ==
  LET neg == s # <<>> /\ s[1] = "-"
      d == IF neg THEN Tail(s) ELSE s
      whole == digitsToNat(SubSeq(d, 1, Len(d) - 3))
      frac == digitsToNat(SubSeq(d, Len(d) - 1, Len(d)))
      v == whole * 1000 + frac * 10
  IN  IF neg THEN 0 - v ELSE v

\* a % b of JavaScript: the remainder has the sign of a.
remainder(a, b) == IF a < 0 THEN 0 - ((0 - a) % b) ELSE a % b

\* Variant: every text counts as a bad ending.
badEndingAlways(s) == TRUE

\* s.endsWith("00") || s.endsWith("50")
badEnding(s) == endsWith(s, <<"0","0">>) \/ endsWith(s, <<"5","0">>)

\* Variant: a seed counts as odd only when its remainder is 1.
nudgeOddIsOne(seed) == IF remainder(seed, 2) = 1 THEN 0 - 10 ELSE 10

\* seed % 2 === 0 ? 0.01 : -0.01
nudge(seed) == IF remainder(seed, 2) = 0 THEN 10 ELSE 0 - 10

\* avoidBadDecimals of normaliseScores.
avoidBadDecimals(x, seed) ==
  LET s == toFixed(x)
      y == IF badEnding(s) THEN clamp(x + nudge(seed)) ELSE x
  IN  parseFloat(toFixed(y))

\* avoid of normalise.
avoid(x, seedInt) ==
  LET s == toFixed(x)
      y == IF badEnding(s) THEN round2(clamp(x + nudge(seedInt))) ELSE x
  IN  parseFloat(toFixed(y))

\* avoid of the normalise of unnamed/part_004, which clamps and rounds itself.
avoidDraft(n, seed) ==
  LET v == round2(clamp(n))
      s == toFixed(v)
      w == IF badEnding(s) THEN round2(clamp(v + nudge(seed))) ELSE v
  IN  parseFloat(toFixed(w))

\* typeof v === "number"; the number of an infinite value is beyond 100.
typeofNumber(v) == v.t \in {"number", "infinity"}

numberOf(v) == IF v.t = "infinity" THEN 100000 + 1 ELSE v.n

\* Variant: a field that holds no number is emitted as null.
normaliseScoresNumbersOnly(json, seed) ==
  [k \in RequiredKeys |->
     LET v == Get(json, k)
     IN  IF typeofNumber(v)
         THEN Num(avoidBadDecimals(round2(clamp(numberOf(v))), seed))
         ELSE Null]

normaliseScores(json, seed) ==
  [k \in RequiredKeys |->
     LET v == Get(json, k)
     IN  IF typeofNumber(v)
         THEN Num(avoidBadDecimals(round2(clamp(numberOf(v))), seed))
         ELSE Coalesce(v, Null)]

normalise(json, seedInt) ==
  [k \in RequiredKeys |->
     LET v == Get(json, k)
     IN  IF typeofNumber(v)
         THEN Num(avoid(round2(clamp(numberOf(v))), seedInt))
         ELSE IF v.t \in {"null", "string"} THEN v
         ELSE IF v.t \in {"undefined", "null"} THEN Null ELSE v]

normaliseDraft(json, seed) ==
  [k \in RequiredKeys |->
     LET v == Get(json, k)
     IN  IF typeofNumber(v)
         THEN Num(avoidDraft(numberOf(v), seed))
         ELSE Coalesce(v, Null)]

(***************************************************************************)
(* The normaliser as a function: the input is a raw value for one score    *)
(* field and a seed; the three normalisers are applied to the object that  *)
(* holds the value, once and a second time to their own result.            *)
(***************************************************************************)
NormAnchors == {0, 50000, 100000}

NormInputs == UNION { (a - NormSpan)..(a + NormSpan) : a \in NormAnchors }

Seeds == (0 - MaxSeed)..MaxSeed

ScoreField == "brand_relevance_percent"

InitNormalise ==
  /\ now = 0
  /\ store = [k \in Keys |-> NoEntry]
  /\ reqs = [p \in {1} |-> IdleReq]
  /\ \E x \in NormInputs, seed \in Seeds : input = [x |-> x, seed |-> seed]
  /\ output = NoOutput
  /\ kpi = IdleKpi

ApplyNormalise ==
  /\ ~output.ready
  /\ LET json == (ScoreField :> Num(input.x))
         a == normaliseScores(json, input.seed)
         b == normalise(json, input.seed)
         c == normaliseDraft(json, input.seed)
     IN  output' =
           [ready |-> TRUE,
            once |-> <<a[ScoreField].n, b[ScoreField].n, c[ScoreField].n>>,
            twice |-> <<normaliseScores(a, input.seed)[ScoreField].n,
                        normalise(b, input.seed)[ScoreField].n,
                        normaliseDraft(c, input.seed)[ScoreField].n>>]
  /\ UNCHANGED <<now, store, reqs, input, kpi>>

NextNormalise == ApplyNormalise

SpecNormalise == InitNormalise /\ [][NextNormalise]_vars

\* The raw value brought into [0,100] and its hundredth, a half rounding up:
\* the h with h - 0.005 <= x < h + 0.005, in hundredths.
Bounded(x) == IF x < 0 THEN 0 ELSE IF x > 100000 THEN 100000 ELSE x

RoundsTo(x) ==
  LET b == Bounded(x)
  IN  CHOOSE h \in {b \div 10, b \div 10 + 1} : 10 * h - 5 <= b /\ b < 10 * h + 5

EvenSeed(seed) == \E k \in Seeds : seed = 2 * k

\* The last two decimals of a value with two decimals, as a number 0..99.
Ending(y) == (y \div 10) % 100

(***************************************************************************)
(* C14.  Range of the normalised value: for every raw value and seed the   *)
(* result of each normaliser lies in [0,100], has at most two decimals and *)
(* does not end in 00 or 50.                                               *)
(***************************************************************************)
C14_NormalisedInRange ==
  output.ready =>
    \A i \in 1..3 :
      LET y == output.once[i]
      IN  /\ 0 <= y /\ y <= 100000
          /\ y % 10 = 0
          /\ Ending(y) \notin {0, 50}

(***************************************************************************)
(* C15.  Nudge at the lower bound: a raw value that rounds to 0.00,        *)
(* normalised with an odd seed, yields 0.01.                               *)
(***************************************************************************)
C15_ZeroOddSeedYieldsHundredth ==
  ( output.ready /\ 0 - 5 <= input.x /\ input.x < 5 /\ ~EvenSeed(input.seed) )
  => \A i \in 1..3 : output.once[i] = 10

(***************************************************************************)
(* C16.  Order of the normaliser: clamp, round a half up to two decimals,  *)
(* and only for a result ending in 00 or 50 a nudge of +0.01 for an even   *)
(* seed and -0.01 for an odd one, clamped and rounded again.  A raw value  *)
(* that rounds to 50.00 yields 50.01 for an even seed and 49.99 for an odd *)
(* seed, negative seeds included; a value that does not end in 00 or 50    *)
(* once rounded is returned as rounded.                                    *)
(***************************************************************************)
C16_NudgeBySeedParity ==
  output.ready =>
    \A i \in 1..3 :
      LET h == RoundsTo(input.x)
          y == output.once[i]
          step == IF EvenSeed(input.seed) THEN 1 ELSE 0 - 1
      IN  /\ (h = 5000 => y = IF EvenSeed(input.seed) THEN 50010 ELSE 49990)
          /\ (h % 100 \notin {0, 50} => y = 10 * h)
          /\ (h % 100 \in {0, 50} => y = Bounded(10 * (h + step)))

C16_Witness ==
  /\ output.ready
  /\ input.x = 49995 /\ input.seed = 0 - 3
  /\ output.once = <<49990, 49990, 49990>>

(***************************************************************************)
(* C17.  Idempotence: for every raw value and seed, normalising the        *)
(* normalised value again with the same seed returns it unchanged.         *)
(***************************************************************************)
C17_Idempotent ==
  output.ready => output.twice = output.once

C17_Witness ==
  /\ output.ready
  /\ input.x = 100400 /\ input.seed = 1
  /\ output.once = <<99990, 99990, 99990>>
  /\ output.twice = output.once

(***************************************************************************)
(* The normaliser on objects: the upstream output holds values of any kind *)
(* in two of the canonical fields, the other fields being absent, and may  *)
(* hold a key that is none of the canonical ones.                          *)
(***************************************************************************)
KeyValues ==
  { Undefined, Null, Str(<<>>), Str(<<"n","/","a">>), True, Infinity,
    Num(50000), Num(12344), Num(0 - 7) }

ExtraKey == "notes"

\* The object with the given values in fields k1 and k2; an undefined value
\* stands for a field that is absent.
JsonOf(k1, v1, k2, v2, extra) ==
  [k \in {x \in {k1} : v1 # Undefined}
         \cup {x \in {k2} : v2 # Undefined}
         \cup (IF extra THEN {ExtraKey} ELSE {})
     |-> IF k = k1 THEN v1 ELSE IF k = k2 THEN v2 ELSE Str(<<"x">>)]

InitFields ==
  /\ now = 0
  /\ store = [k \in Keys |-> NoEntry]
  /\ reqs = [p \in {1} |-> IdleReq]
  /\ \E i \in 1..Len(REQUIRED_KEYS), j \in 1..Len(REQUIRED_KEYS) :
       /\ i < j
       /\ \E v1 \in KeyValues, v2 \in KeyValues, extra \in BOOLEAN, seed \in {0, 1} :
            input = [json |-> JsonOf(REQUIRED_KEYS[i], v1, REQUIRED_KEYS[j], v2, extra),
                     seed |-> seed]
  /\ output = NoOutput
  /\ kpi = IdleKpi

ApplyNormaliseFields ==
  /\ ~output.ready
  /\ output' = [ready |-> TRUE,
                out |-> << normaliseScores(input.json, input.seed),
                           normalise(input.json, input.seed),
                           normaliseDraft(input.json, input.seed) >>]
  /\ UNCHANGED <<now, store, reqs, input, kpi>>

NextFields == ApplyNormaliseFields

SpecFields == InitFields /\ [][NextFields]_vars

\* The object that holds field k of json and nothing else.
Only(json, k) == [x \in DOMAIN json \cap {k} |-> json[x]]

(***************************************************************************)
(* C18.  The normaliser works field by field: its output has exactly the   *)
(* 11 canonical keys whatever other keys the upstream output has; a field  *)
(* holding a string or null is emitted unchanged and an absent field as    *)
(* null; only a field holding a number is clamped, rounded and nudged; and *)
(* the result for a field is the result for the object that holds that     *)
(* field alone.                                                            *)
(***************************************************************************)
C18_FieldByField ==
  output.ready =>
    \A i \in 1..3 :
      LET o == output.out[i]
      IN  /\ DOMAIN o = RequiredKeys
          /\ \A k \in RequiredKeys :
               LET v == Get(input.json, k)
               IN  /\ (v.t \in {"string", "null"} => o[k] = v)
                   /\ (v.t = "undefined" => o[k] = Null)
                   /\ (v.t \notin {"number", "infinity", "undefined"} => o[k] = v)
                   /\ (v.t = "number" =>
                         /\ o[k].t = "number"
                         /\ RoundsTo(v.n) % 100 \notin {0, 50} => o[k].n = 10 * RoundsTo(v.n))
                   /\ o[k] = << normaliseScores(Only(input.json, k), input.seed),
                                normalise(Only(input.json, k), input.seed),
                                normaliseDraft(Only(input.json, k), input.seed) >>[i][k]

C18_Witness ==
  /\ output.ready
  /\ ExtraKey \in DOMAIN input.json
  /\ Get(input.json, "brand_name") = Str(<<"n","/","a">>)
  /\ Get(input.json, "brand_trust_percent") = Num(50000)
  /\ input.seed = 1
  /\ \A i \in 1..3 :
       /\ output.out[i]["brand_name"] = Str(<<"n","/","a">>)
       /\ output.out[i]["brand_trust_percent"] = Num(49990)
       /\ output.out[i]["canonical_domain"] = Null

(***************************************************************************)
(* Two requests of the cache handler at once.  Both ask for the same       *)
(* identity, in pinned or live mode and with the default or a one-day      *)
(* window; the handler takes no lock, so their steps interleave freely.    *)
(***************************************************************************)
ConcurrentBodies ==
  {Body(Str(ExampleCom), Num(2), m, w) :
     m \in {Undefined, Str(Live)}, w \in {Undefined, Num(1)}}

ConcurrentOutcomes ==
  {[kind |-> "throw", payload |-> NoPayload],
   [kind |-> "json", payload |-> Obj(Num(10), Num(20), Num(30), Num(40), Num(50))],
   [kind |-> "json", payload |-> Obj(Num(11), Num(20), Num(30), Null, Num(50))]}

InitConcurrent ==
  /\ now = 0
  /\ store = [k \in Keys |-> NoEntry]
  /\ reqs = [p \in {1, 2} |-> IdleReq]
  /\ input = NoInput
  /\ output = NoOutput
  /\ kpi = IdleKpi

NextConcurrent ==
  \/ \E p \in Procs, body \in ConcurrentBodies :
       Begin(p, [parses |-> TRUE, body |-> body], TRUE)
  \/ \E p \in Procs, outcome \in ConcurrentOutcomes : UpstreamReturn(p, outcome)
  \/ \E p \in Procs, setOk \in BOOLEAN : StoreSet(p, setOk)
  \/ \E p \in Procs : Deliver(p)
  \/ Tick

SpecConcurrent == InitConcurrent /\ [][NextConcurrent]_vars

\* The entry a request writes, as its response and its body tell it: the
\* payload it answers, its SK, the time it read the clock, its window.
EntryOf(r) ==
  [present |-> TRUE, payload |-> r.payload,
   meta |-> [sk |-> r.sk, last_refreshed_at |-> r.nowIso,
             consistency_window_days |->
               IF r.ev.body.consistency_window_days = Undefined
               THEN 180 ELSE r.ev.body.consistency_window_days.n]]

\* An entry without the store's book-keeping (the TTL, the writer).
Stored(e) == [present |-> e.present, payload |-> e.payload, meta |-> e.meta]

(***************************************************************************)
(* C20.  No single flight, last write wins: requests for one SK may be in  *)
(* flight together; a step that completes the store write of a request     *)
(* leaves, under the request's key, exactly the entry of that request      *)
(* (its payload together with its meta), and no step of another request    *)
(* changes a part of it; so once both are answered the entry is that of    *)
(* the write that came last.                                               *)
(***************************************************************************)
C20_LastWriteWins ==
  [][ /\ \A p \in Procs :
           (reqs[p].pc = "storing" /\ reqs'[p].wrote) =>
             Stored(store'[KeyOf(reqs[p])]) = EntryOf(reqs'[p])
      /\ (\A p \in Procs : ~(reqs[p].pc = "storing" /\ reqs'[p].wrote)) =>
           (store' = store \/ now' # now)
    ]_vars

C20_Witness ==
  /\ reqs[1].sk = reqs[2].sk
  /\ Answered(1) /\ Answered(2) /\ reqs[1].wrote /\ reqs[2].wrote
  /\ reqs[1].cacheStatus = "miss" /\ reqs[2].cacheStatus = "miss"
  /\ IsPinned(reqs[1]) /\ IsPinned(reqs[2])
  /\ ~reqs[1].cached.present /\ ~reqs[2].cached.present
  /\ reqs[1].payload # reqs[2].payload
  /\ EntryOf(reqs[1]).meta # EntryOf(reqs[2]).meta
  /\ Stored(store[KeyOf(reqs[1])]) = EntryOf(reqs[2])

\* Both requests await the upstream at once, having both found no entry.
C20_BothInFlight ==
  /\ reqs[1].pc = "fetching" /\ reqs[2].pc = "fetching"
  /\ reqs[1].sk = reqs[2].sk
  /\ ~reqs[1].cached.present /\ ~reqs[2].cached.present

\* Two requests answered 200 for one SK, both responses on record.
BothServed(p, q) ==
  /\ p # q /\ Answered(p) /\ Answered(q)
  /\ reqs[p].resp.status = 200 /\ reqs[q].resp.status = 200
  /\ reqs[p].sk = reqs[q].sk

(***************************************************************************)
(* C19.  As claimed: whatever the sequence or interleaving of requests for *)
(* one SK within a window, any two successful responses carry the same     *)
(* payload values.                                                         *)
(***************************************************************************)
C19_SameResultWhateverTheOrder ==
  \A p \in Procs, q \in Procs :
    BothServed(p, q) => reqs[p].resp.payload = reqs[q].resp.payload

(***************************************************************************)
(* C19, amended.  A pinned request that finds, within its window, the      *)
(* entry that a successful request wrote is answered with the payload that *)
(* request answered, without an upstream call and without a store write.   *)
(* Requests that overlap before the first write, and live requests, carry  *)
(* their own upstream output.                                              *)
(***************************************************************************)
C19_PinnedAfterWriteSameResult ==
  \A p \in Procs, q \in Procs :
    ( /\ BothServed(p, q)
      /\ reqs[p].wrote
      /\ IsPinned(reqs[q]) /\ reqs[q].cached.present
      /\ Stored(reqs[q].cached) = EntryOf(reqs[p])
      /\ AgeTicks(reqs[q]) <= WindowTicks(reqs[q]) )
    => /\ reqs[q].resp.payload = reqs[p].resp.payload
       /\ reqs[q].calls = 0 /\ ~reqs[q].wrote
       /\ Stored(store[KeyOf(reqs[q])]) = EntryOf(reqs[p])

C19_Witness ==
  \E p \in Procs, q \in Procs :
    /\ BothServed(p, q)
    /\ reqs[p].wrote /\ IsLive(reqs[p]) /\ reqs[p].cached.present
    /\ reqs[p].cached.payload # reqs[p].payload
    /\ IsPinned(reqs[q]) /\ Stored(reqs[q].cached) = EntryOf(reqs[p])
    /\ reqs[q].resp.cache_status = "hit"
    /\ reqs[q].resp.payload = reqs[p].resp.payload


(***************************************************************************)
(* The KPI handler and modelRequest (netlify/functions/ubiqitum-kpi.ts).   *)
(***************************************************************************)
\* String.prototype.includes.
includes(s, sub) ==
  \E i \in 1..(Len(s) + 1) :
    /\ i + Len(sub) - 1 <= Len(s)
    /\ SubSeq(s, i, i + Len(sub) - 1) = sub

\* new URL(raw).href for a raw string that starts with http:// or https://
\* (in any case): the slashes after the scheme are skipped, the host runs
\* to the next '/', '?' or '#', and the parse fails (the empty result) when
\* the host is empty or holds white space.  Ports, credentials and percent
\* encoding are not modelled.
urlHref(raw) ==
  LET lower     == toLowerCase(raw)
      schemeLen == IF startsWith(lower, <<"h","t","t","p",":","/","/">>) THEN 7 ELSE 8
      rest      == slice(raw, schemeLen)
      nonSlash  == {i \in 1..Len(rest) : rest[i] \notin {"/", "\\"}}
      after     == IF nonSlash = {} THEN <<>>
                   ELSE SubSeq(rest, CHOOSE i \in nonSlash : \A j \in nonSlash : i <= j,
                               Len(rest))
      host      == splitFirst(after)
      tail      == slice(after, Len(host))
  IN  IF host = <<>> \/ \E i \in 1..Len(host) : IsSpaceChar(host[i])
      THEN <<>>
      ELSE SubSeq(lower, 1, schemeLen) \o toLowerCase(host)
             \o (IF tail # <<>> /\ tail[1] = "/" THEN tail ELSE <<"/">> \o tail)

normaliseInputUrl(raw) ==
  IF Falsy(raw) \/ raw.t # "string" THEN <<>>
  ELSE LET t     == trim(raw.s)
           lower == toLowerCase(t)
       IN  IF startsWith(lower, <<"h","t","t","p",":","/","/">>)
              \/ startsWith(lower, <<"h","t","t","p","s",":","/","/">>)
           THEN urlHref(t)
           ELSE urlHref(<<"h","t","t","p","s",":","/","/">> \o t)

TIMEOUT == 60000

attempts == <<12000, 16000, 8000, 6000>>

\* Math.min(timeoutMs, 60000): the delay of the abort timer.
timerDelay(timeoutMs) == IF timeoutMs < 60000 THEN timeoutMs ELSE 60000

\* The texts the model answers with, and JSON.parse of them.
TrustText ==
  <<"{","\"","b","r","a","n","d","_","t","r","u","s","t","_","p","e","r","c","e","n","t","\"",":","5","0","}">>

\* A text with the four benchmark fields.
BenchmarkText ==
  <<"{","\"","b","r","a","n","d","_","r","e","l","e","v","a","n","c","e",
    "_","p","e","r","c","e","n","t","\"",":","1","0",",","\"","b","r","a",
    "n","d","_","a","w","a","r","e","n","e","s","s","_","p","e","r","c","e",
    "n","t","\"",":","2","0",",","\"","s","e","c","t","o","r","_","r","e",
    "l","e","v","a","n","c","e","_","a","v","g","_","p","e","r","c","e","n",
    "t","\"",":","3","0",",","\"","s","e","c","t","o","r","_","a","w","a",
    "r","e","n","e","s","s","_","a","v","g","_","p","e","r","c","e","n","t",
    "\"",":","4","0","}">>

NullText == <<"n","u","l","l">>

ScalarText == <<"4","2">>

ProseText == <<"o","k">>

JSONparse(text) ==
  CASE text = TrustText  -> [kind |-> "object", f |-> ("brand_trust_percent" :> Num(50000))]
    [] text = BenchmarkText ->
         [kind |-> "object",
          f |-> [k \in {"brand_relevance_percent", "brand_awareness_percent",
                        "sector_relevance_avg_percent", "sector_awareness_avg_percent"}
                   |-> CASE k = "brand_relevance_percent" -> Num(10000)
                         [] k = "brand_awareness_percent" -> Num(20000)
                         [] k = "sector_relevance_avg_percent" -> Num(30000)
                         [] OTHER -> Num(40000)]]
    [] text = NullText   -> [kind |-> "null", f |-> NoJson.f]
    [] text = ScalarText -> [kind |-> "scalar", f |-> NoJson.f]
    [] OTHER             -> [kind |-> "throws", f |-> NoJson.f]

Stop == <<"s","t","o","p">>

ModelData ==
  { Data(m, Undefined, Undefined) :
      m \in { Undefined, Str(<<"M","a","x"," ","t","o","k","e","n","s">>),
              Str(<<"c","o","n","t","e","x","t">>), Str(<<"b","u","s","y">>), Num(429) } }
  \cup { Data(Undefined, fin, c) :
           fin \in { Undefined, Str(Stop), Str(<<"l","e","n","g","t","h">>) },
           c \in { Undefined, Str(<<>>), Str(TrustText), Str(NullText),
                   Str(ScalarText), Str(ProseText) } }

\* Variant: an exception raised while the response is examined is not caught.
modelRequestResultNoCatch(respOk, data) ==
  IF ~respOk
  THEN LET message == OrElse(data.message, Str(<<>>))
       IN  IF message.t # "string"
           THEN Result(FALSE, "thrown", NoJson)
           ELSE LET msg == toLowerCase(message.s)
                IN  IF includes(msg, <<"m","a","x">>)
                       \/ includes(msg, <<"c","o","n","t","e","x","t">>)
                    THEN Result(FALSE, "exceeds_limit", NoJson)
                    ELSE Result(FALSE, "http_error", NoJson)
  ELSE IF Falsy(data.content) \/ data.finish # Str(Stop)
  THEN Result(FALSE, "truncated", NoJson)
  ELSE LET json == JSONparse(data.content.s)
       IN  IF json.kind = "throws"
           THEN Result(FALSE, "invalid_json", NoJson)
           ELSE Result(TRUE, "none", json)

\* modelRequest from the response body to its return value.  A message that
\* is no string has no toLowerCase: the TypeError goes to the outer catch.
modelRequestResult(respOk, data) ==
  IF ~respOk
  THEN LET message == OrElse(data.message, Str(<<>>))
       IN  IF message.t # "string"
           THEN Result(FALSE, "network", NoJson)
           ELSE LET msg == toLowerCase(message.s)
                IN  IF includes(msg, <<"m","a","x">>)
                       \/ includes(msg, <<"c","o","n","t","e","x","t">>)
                    THEN Result(FALSE, "exceeds_limit", NoJson)
                    ELSE Result(FALSE, "http_error", NoJson)
  ELSE IF Falsy(data.content) \/ data.finish # Str(Stop)
  THEN Result(FALSE, "truncated", NoJson)
  ELSE LET json == JSONparse(data.content.s)
       IN  IF json.kind = "throws"
           THEN Result(FALSE, "invalid_json", NoJson)
           ELSE Result(TRUE, "none", json)

\* The catch block of modelRequest for a rejected fetch.  An aborted fetch
\* rejects with an AbortError or with the abort reason (the string
\* "timeout", which has no name), as the runtime's fetch has it.
modelRequestCatch(aborted, asAbortError) ==
  IF aborted /\ asAbortError
  THEN Result(FALSE, "timeout", NoJson)
  ELSE Result(FALSE, "network", NoJson)

\* modelRequest enters: the controller, the armed timer, the fetch.
modelRequestStart(k, maxTokens, timeoutMs) ==
  [k EXCEPT !.pc = "fetch", !.calls = @ + 1, !.sent = Append(@, maxTokens),
            !.timer = "armed",
            !.delay = timerDelay(timeoutMs), !.aborted = FALSE,
            !.respOk = FALSE, !.data = EmptyData, !.result = NoResult]

\* Variant: the timer is cleared only when the call did not fail in fetch.
modelRequestReturnTimerKept(k, result) ==
  [k EXCEPT !.pc = "returned", !.result = result,
            !.timer = IF result.reason \in {"network", "timeout"} THEN @ ELSE "cleared"]

\* modelRequest returns: the finally block clears the timer.
modelRequestReturn(k, result) ==
  [k EXCEPT !.pc = "returned", !.result = result, !.timer = "cleared"]

\* Number.isInteger(body.seed) ? body.seed : 0
seedOf(body) == IF body.seed.t = "number" THEN body.seed.n ELSE 0

\* Variant: brand_url is not examined before the model is called.
kpiHandlerStartUnchecked(ev) ==
  LET base == [IdleKpi EXCEPT !.ev = ev]
  IN  IF ~ev.parses
      THEN [base EXCEPT !.pc = "done", !.responses = 1,
              !.resp = KpiResp(400, "Invalid JSON", NoJson)]
      ELSE modelRequestStart([base EXCEPT !.brand_url = normaliseInputUrl(ev.body.brand_url),
                                          !.attempt = 1],
                             attempts[1], TIMEOUT)

\* The handler from its entry to the first modelRequest: JSON.parse,
\* normaliseInputUrl and the brand_url test.
kpiHandlerStart(ev) ==
  LET base == [IdleKpi EXCEPT !.ev = ev]
  IN  IF ~ev.parses
      THEN [base EXCEPT !.pc = "done", !.responses = 1,
              !.resp = KpiResp(400, "Invalid JSON", NoJson)]
      ELSE LET url == normaliseInputUrl(ev.body.brand_url)
           IN  IF url = <<>>
               THEN [base EXCEPT !.pc = "done", !.responses = 1,
                       !.resp = KpiResp(400, "Invalid or missing brand_url", NoJson)]
               ELSE modelRequestStart([base EXCEPT !.brand_url = url, !.attempt = 1],
                                      attempts[1], TIMEOUT)

\* Variant: the loop goes on after a network error or a timeout as well.
kpiHandlerAfterRetryAll(k) ==
  IF k.result.ok
  THEN IF k.result.json.kind = "null"
       THEN [k EXCEPT !.pc = "done", !.responses = @ + 1,
               !.resp = KpiResp(500, "thrown", NoJson)]
       ELSE [k EXCEPT !.pc = "done", !.responses = @ + 1,
               !.resp = KpiResp(200, "none",
                          [kind |-> "object",
                           f |-> normaliseScores(k.result.json.f, seedOf(k.ev.body))])]
  ELSE IF k.attempt = Len(attempts)
  THEN [k EXCEPT !.pc = "done", !.responses = @ + 1,
          !.resp = KpiResp(502, k.result.reason, NoJson)]
  ELSE modelRequestStart([k EXCEPT !.attempt = @ + 1], attempts[k.attempt + 1], TIMEOUT)

\* The retry loop after a modelRequest has returned, and the response.
\* normaliseScores reads the fields of its argument: of null it throws, and
\* the platform answers for the handler.
kpiHandlerAfter(k) ==
  IF k.result.ok
  THEN IF k.result.json.kind = "null"
       THEN [k EXCEPT !.pc = "done", !.responses = @ + 1,
               !.resp = KpiResp(500, "thrown", NoJson)]
       ELSE [k EXCEPT !.pc = "done", !.responses = @ + 1,
               !.resp = KpiResp(200, "none",
                          [kind |-> "object",
                           f |-> normaliseScores(k.result.json.f, seedOf(k.ev.body))])]
  ELSE IF k.result.reason \in {"network", "timeout"} \/ k.attempt = Len(attempts)
  THEN [k EXCEPT !.pc = "done", !.responses = @ + 1,
          !.resp = KpiResp(502, k.result.reason, NoJson)]
  ELSE modelRequestStart([k EXCEPT !.attempt = @ + 1], attempts[k.attempt + 1], TIMEOUT)

KpiBegin(ev) ==
  /\ kpi.pc = "idle"
  /\ kpi' = kpiHandlerStart(ev)
  /\ UNCHANGED <<now, store, reqs, input, output>>

\* fetch resolves with a response whose status is, or is not, in 200..299.
FetchResolves(respOk) ==
  /\ kpi.pc = "fetch"
  /\ kpi' = [kpi EXCEPT !.pc = "json", !.respOk = respOk]
  /\ UNCHANGED <<now, store, reqs, input, output>>

\* fetch rejects with a network error.
FetchRejects ==
  /\ kpi.pc = "fetch"
  /\ kpi' = modelRequestReturn(kpi, modelRequestCatch(FALSE, FALSE))
  /\ UNCHANGED <<now, store, reqs, input, output>>

\* resp.json() settles.
BodyRead(data) ==
  /\ kpi.pc = "json"
  /\ kpi' = modelRequestReturn([kpi EXCEPT !.data = data],
                               modelRequestResult(kpi.respOk, data))
  /\ UNCHANGED <<now, store, reqs, input, output>>

\* The timer fires and aborts the controller: a pending fetch rejects, a
\* pending resp.json() rejects and is replaced by the empty object.
TimerFires(asAbortError) ==
  /\ kpi.timer = "armed"
  /\ kpi.pc \in {"fetch", "json"}
  /\ kpi' = IF kpi.pc = "fetch"
            THEN modelRequestReturn([kpi EXCEPT !.aborted = TRUE],
                                    modelRequestCatch(TRUE, asAbortError))
            ELSE modelRequestReturn([kpi EXCEPT !.aborted = TRUE, !.data = EmptyData],
                                    modelRequestResult(kpi.respOk, EmptyData))
  /\ UNCHANGED <<now, store, reqs, input, output>>

KpiContinue ==
  /\ kpi.pc = "returned"
  /\ kpi' = kpiHandlerAfter(kpi)
  /\ UNCHANGED <<now, store, reqs, input, output>>

KpiDeliver ==
  /\ kpi.pc = "done"
  /\ kpi' = IdleKpi
  /\ UNCHANGED <<now, store, reqs, input, output>>

KpiBodies ==
  { Body(Str(ExampleUrl), Num(2), Undefined, Undefined),
    Body(Str(ExampleCom), Undefined, Undefined, Undefined),
    Body(Undefined, Num(2), Undefined, Undefined),
    Body(Num(5), Num(2), Undefined, Undefined) }
  \cup EdgeBodies

KpiEvents ==
  [parses : {TRUE}, body : KpiBodies] \cup {NoEvent}

InitKpi ==
  /\ now = 0
  /\ store = [k \in Keys |-> NoEntry]
  /\ reqs = [p \in {1} |-> IdleReq]
  /\ input = NoInput
  /\ output = NoOutput
  /\ kpi = IdleKpi

NextKpi ==
  \/ \E ev \in KpiEvents : KpiBegin(ev)
  \/ \E respOk \in BOOLEAN : FetchResolves(respOk)
  \/ FetchRejects
  \/ \E data \in ModelData : BodyRead(data)
  \/ \E asAbortError \in BOOLEAN : TimerFires(asAbortError)
  \/ KpiContinue
  \/ KpiDeliver

SpecKpi == InitKpi /\ [][NextKpi]_vars

\* The runtime fires an armed timer after its delay, and runs the handler on
\* when modelRequest has returned; the model's API may never answer.
SpecKpiLive ==
  /\ InitKpi /\ [][NextKpi]_vars
  /\ WF_vars(\E asAbortError \in BOOLEAN : TimerFires(asAbortError))
  /\ WF_vars(KpiContinue)


CallPending == kpi.pc \in {"fetch", "json"}

\* The timer of modelRequest is armed exactly while the call is under way,
\* with a delay of at most 60000 ms, and the handler answers once.
TimerDiscipline ==
  /\ CallPending => kpi.timer = "armed" /\ kpi.delay \in 1..60000
  /\ ~CallPending => kpi.timer # "armed"
  /\ kpi.pc = "returned" => kpi.timer = "cleared"
  /\ kpi.pc = "done" => kpi.responses = 1
  /\ kpi.pc # "done" => kpi.responses = 0

\* A call that ended in the timeout is answered as every failed call is.
TimeoutIsAFailure ==
  ( kpi.pc = "done" /\ kpi.calls > 0 /\ ~kpi.result.ok )
  => kpi.resp.status = 502 /\ kpi.resp.detail = kpi.result.reason

BadInputEvents ==
  [parses : {TRUE}, body : EdgeBodies \cup {Body(Undefined, Num(2), Undefined, Undefined)}]
  \cup {NoEvent}

NextBadInput ==
  \/ \E p \in Procs, ev \in BadInputEvents, getOk \in BOOLEAN : Begin(p, ev, getOk)
  \/ \E p \in Procs, outcome \in ConcurrentOutcomes : UpstreamReturn(p, outcome)
  \/ \E p \in Procs, setOk \in BOOLEAN : StoreSet(p, setOk)
  \/ \E p \in Procs : Deliver(p)
  \/ \E ev \in BadInputEvents : KpiBegin(ev)
  \/ \E respOk \in BOOLEAN : FetchResolves(respOk)
  \/ FetchRejects
  \/ \E data \in {EmptyData, Data(Undefined, Str(Stop), Str(TrustText))} : BodyRead(data)
  \/ \E asAbortError \in BOOLEAN : TimerFires(asAbortError)
  \/ KpiContinue
  \/ KpiDeliver

SpecBadInput == InitKpi /\ [][NextBadInput]_vars

\* The body of an event has no brand_url, or the event's text does not parse.
MissingOrUnparseable(ev) == ~ev.parses \/ ev.body.brand_url \in {Undefined, Null}

(***************************************************************************)
(* C22.  Bad input: a request whose brand_url is missing, or whose body is *)
(* no parseable JSON, is answered with an error status, and its handler    *)
(* reads nothing from the store, writes nothing to it and makes no         *)
(* upstream call; this holds of the cache handler and of the KPI handler.  *)
(***************************************************************************)
C22_BadInputRejected ==
  /\ \A p \in Procs :
       LET r == reqs[p]
       IN  ( r.pc # "idle" /\ MissingOrUnparseable(r.ev) )
           => /\ r.pc = "done"
              /\ r.resp.status \in {400, 500}
              /\ r.gets = 0 /\ r.calls = 0 /\ ~r.wrote
  /\ ( kpi.pc # "idle" /\ MissingOrUnparseable(kpi.ev) )
     => /\ kpi.pc = "done"
        /\ kpi.resp.status = 400
        /\ kpi.calls = 0

C22_Witness ==
  /\ kpi.pc = "done" /\ kpi.ev.parses /\ kpi.ev.body.brand_url = Undefined
  /\ kpi.resp.status = 400 /\ kpi.calls = 0
  /\ \E p \in Procs :
       /\ reqs[p].pc = "done" /\ ~reqs[p].ev.parses
       /\ reqs[p].resp.status = 500 /\ reqs[p].gets = 0

(***************************************************************************)
(* C23.  A brand_url without a host: a request to the cache handler whose  *)
(* brand_url canonicalises to the empty domain is rejected as bad input;   *)
(* no store key is built from it, the store is neither read nor written    *)
(* for it, and no upstream call is made.                                   *)
(***************************************************************************)
C23_EmptyDomainRejected ==
  \A p \in Procs :
    LET r == reqs[p]
    IN  ( /\ r.pc # "idle" /\ r.ev.parses
          /\ r.ev.body.brand_url.t = "string"
          /\ canonicalDomain(r.ev.body.brand_url.s) = <<>> )
        => /\ r.pc = "done"
           /\ r.resp.status = 400
           /\ r.sk = NoSK
           /\ r.gets = 0 /\ r.calls = 0 /\ ~r.wrote


(***************************************************************************)
(* Convergence of concurrent requests.  The handler goes on to redis.set   *)
(* once the upstream has answered with a valid payload, and redis.set      *)
(* settles: it succeeds or it throws.  The upstream itself may fail or     *)
(* never answer, so nothing is assumed of it.                              *)
(***************************************************************************)
ConcurrentProcs == {1, 2}

\* Both requests ask for a window of one day, in pinned or in live mode.
ConvergeBodies ==
  {Body(Str(ExampleCom), Num(2), m, Num(1)) : m \in {Undefined, Str(Live)}}

NextConverge ==
  \/ \E p \in Procs, body \in ConvergeBodies :
       Begin(p, [parses |-> TRUE, body |-> body], TRUE)
  \/ \E p \in Procs, outcome \in ConcurrentOutcomes : UpstreamReturn(p, outcome)
  \/ \E p \in Procs, setOk \in BOOLEAN : StoreSet(p, setOk)
  \/ \E p \in Procs : Deliver(p)
  \/ Tick

SpecConverge ==
  /\ InitConcurrent /\ [][NextConverge]_vars
  /\ \A p \in ConcurrentProcs : WF_vars(\E setOk \in BOOLEAN : StoreSet(p, setOk))

\* The store holds a valid entry for the SK of request p.
HoldsValidEntry(p) ==
  /\ store[KeyOf(reqs[p])].present
  /\ ValidPayload(store[KeyOf(reqs[p])].payload)
  /\ store[KeyOf(reqs[p])].meta.sk = reqs[p].sk

\* A pinned request that finds an entry within its window is answered from
\* it as a hit, with no upstream call and no write.
PinnedWithinWindowIsHit ==
  \A p \in ConcurrentProcs :
    LET r == reqs[p]
    IN  ( /\ r.pc # "idle" /\ IsPinned(r) /\ r.got /\ r.cached.present
          /\ AgeTicks(r) <= WindowTicks(r) )
        => /\ r.pc = "done"
           /\ r.cacheStatus = "hit"
           /\ r.calls = 0 /\ ~r.wrote
           /\ r.resp = Resp(200, "hit", Json(Spread(r.cached.payload)))

(***************************************************************************)
(* C21.  Convergence: whatever the interleaving of the requests for one    *)
(* SK, a request that has a valid upstream result in hand is eventually    *)
(* answered, and when its store write succeeded the store then holds a     *)
(* valid entry for the SK; and every pinned request that finds an entry    *)
(* within the window is served as a hit without an upstream call.          *)
(***************************************************************************)
C21_ConvergesToValidEntry ==
  /\ \A p \in ConcurrentProcs :
       (reqs[p].pc = "storing")
         ~> (reqs[p].pc = "done" /\ (reqs[p].wrote => HoldsValidEntry(p)))
  /\ [][\A p \in ConcurrentProcs :
          (reqs[p].pc = "storing" /\ reqs'[p].pc = "done" /\ reqs'[p].wrote)
          => (store'[KeyOf(reqs[p])].present
              /\ ValidPayload(store'[KeyOf(reqs[p])].payload))]_vars
  /\ []PinnedWithinWindowIsHit

C21_Witness ==
  /\ reqs[1].pc = "done" /\ reqs[1].wrote /\ reqs[1].cacheStatus = "miss"
  /\ reqs[2].pc = "done" /\ reqs[2].cacheStatus = "hit" /\ reqs[2].calls = 0
  /\ reqs[2].cached.meta.last_refreshed_at = reqs[1].nowIso
  /\ reqs[2].resp.payload = reqs[1].resp.payload
  /\ HoldsValidEntry(1)


(***************************************************************************)
(* The earlier handler with its responses (netlify/ubiqitum-cache.ts; the  *)
(* handler of ubiqitum-kpi-core.ts is the same code).  Its 200 responses   *)
(* carry the SK as ETag and a refresh time as Last-Modified.  Requests     *)
(* come one after the other; output keeps the last two exchanges.          *)
(***************************************************************************)
NoHeader == <<>>

EarlierResp(status, etag, lastModified, payload) ==
  [status |-> status, etag |-> etag, lastModified |-> lastModified, payload |-> payload]

\* Variant: a served entry is dated with the time of the request.
earlierHitDatedNow(cached, sk, nowIso) ==
  EarlierResp(200, sk, <<nowIso>>, cached.payload)

\* The response that serves a fresh entry.
earlierHit(cached, sk, nowIso) ==
  EarlierResp(200, sk, <<cached.meta.last_refreshed_at>>, cached.payload)

\* The response after a recompute.
earlierComputed(payload, sk, nowIso) ==
  EarlierResp(200, sk, <<nowIso>>, payload)

\* The whole handler for one request: its response, whether it computed,
\* and the store it leaves.
earlierHandler(body, outcome, t, st) ==
  IF Falsy(body.brand_url)
  THEN [resp |-> EarlierResp(400, NoHeader, NoHeader, NoPayload),
        computed |-> FALSE, store |-> st]
  ELSE
    LET sk     == skOf[body]
        cached == st[redisKey(sk)]
    IN  IF earlierServes(cached, body, t)
        THEN [resp |-> earlierHit(cached, sk, t), computed |-> FALSE, store |-> st]
        ELSE IF outcome.kind # "json"
        THEN [resp |-> EarlierResp(500, NoHeader, NoHeader, NoPayload),
              computed |-> FALSE, store |-> st]
        ELSE [resp |-> earlierComputed(outcome.payload, sk, t),
              computed |-> TRUE,
              store |-> [st EXCEPT ![redisKey(sk)] =
                           Entry(outcome.payload, sk, t, windowDaysOf(body),
                                 NoExpiry, "earlier")]]

Exchange(body, at, resp, computed) ==
  [body |-> body, at |-> at, resp |-> resp, computed |-> computed]

NoExchange ==
  Exchange(Body(Undefined, Undefined, Undefined, Undefined), 0,
           EarlierResp(0, NoHeader, NoHeader, NoPayload), FALSE)

EarlierRequest(body, outcome) ==
  /\ \A p \in Procs : reqs[p].pc = "idle"
  /\ LET h == earlierHandler(body, outcome, now, store)
     IN  /\ store' = h.store
         /\ output' = [ready |-> TRUE,
                       prev  |-> IF output.ready THEN output.last ELSE NoExchange,
                       last  |-> Exchange(body, now, h.resp, h.computed)]
  /\ UNCHANGED <<now, reqs, input, kpi>>

EarlierBodies ==
  {Body(Str(ExampleCom), Num(2), m, w) :
     m \in {Undefined, Str(Live)}, w \in {Undefined, Num(1)}}
  \cup {Body(Undefined, Num(2), Undefined, Undefined)}

NextEarlier ==
  \/ \E body \in EarlierBodies, outcome \in ConcurrentOutcomes :
       EarlierRequest(body, outcome)
  \/ Tick

SpecEarlier == Init /\ [][NextEarlier]_vars

\* The last two exchanges are two identical pinned requests, the first of
\* which computed, the second arriving within the window of the first.
TwoPinnedWithinWindow ==
  /\ output.ready
  /\ output.prev.computed
  /\ output.last.body = output.prev.body
  /\ output.last.body.stability_mode \in {Undefined, Str(Pinned)}
  /\ output.last.at - output.prev.at
       <= (IF output.last.body.consistency_window_days = Undefined
           THEN 180 ELSE output.last.body.consistency_window_days.n) * TicksPerDay

TokenOrder == <<12000, 16000, 8000, 6000>>

\* A step of the retry loop: modelRequest has returned and the handler
\* either answers or calls again.
LoopStep == kpi.pc = "returned" /\ kpi'.pc # "returned"

(***************************************************************************)
(* C31.  The retry loop of the KPI handler: the calls to the model are     *)
(* made one at a time with max_tokens 12000, 16000, 8000, 6000 in that     *)
(* order and are at most 4; after a success, and after a failure with      *)
(* reason network or timeout, no further call is made; after every other   *)
(* failure the next call is made while one is left; when no call           *)
(* succeeded the answer is 502 with the reason of the last call as detail  *)
(* and no normalised output.                                               *)
(***************************************************************************)
C31_RetryLoop ==
  /\ [](/\ kpi.calls <= 4
        /\ kpi.sent = SubSeq(TokenOrder, 1, kpi.calls)
        /\ (kpi.pc \in {"fetch", "json"} => kpi.result = NoResult)
        /\ (kpi.pc = "done" /\ kpi.calls > 0 /\ ~kpi.result.ok
              => kpi.resp = KpiResp(502, kpi.result.reason, NoJson)))
  /\ [][LoopStep =>
          IF kpi.result.ok \/ kpi.result.reason \in {"network", "timeout"}
             \/ kpi.calls = 4
          THEN /\ kpi'.pc = "done"
               /\ kpi'.calls = kpi.calls
               /\ kpi'.result = kpi.result
               /\ (kpi.result.ok => kpi'.resp.status # 502)
          ELSE /\ kpi'.pc = "fetch"
               /\ kpi'.calls = kpi.calls + 1
               /\ kpi'.sent = Append(kpi.sent, TokenOrder[kpi.calls + 1])]_vars

C31_Witness ==
  /\ kpi.pc = "done"
  /\ kpi.sent = TokenOrder
  /\ kpi.result.reason = "truncated"
  /\ kpi.resp = KpiResp(502, "truncated", NoJson)


(***************************************************************************)
(* The cache handler with the KPI handler as its upstream: the request     *)
(* body is posted to the KPI function, and the text of the KPI function's  *)
(* response is what the cache handler parses and validates.  The URL of    *)
(* the upstream is configuration (process.env.URL): another deployment     *)
(* may answer behind it, with any of the outcomes of an upstream.          *)
(***************************************************************************)
\* JSON.parse of the body of a KPI response: the 200 body is the object
\* {input_payload, normalized_output}, the 400 and 502 bodies are the object
\* {error, detail}.
kpiBody(k) ==
  IF k.resp.status = 200
  THEN [input_payload |-> k.brand_url, normalized_output |-> k.resp.output.f]
  ELSE [error |-> k.resp.status, detail |-> k.resp.detail]

\* The fields the cache handler reads of the parsed body: payload[key] for
\* its own keys, undefined where the body has no such key.
payloadOfBody(json) == [obj |-> TRUE, f |-> [key \in PayloadKeys |-> Get(json, key)]]

\* The outcome of the cache handler's fetch when the KPI handler answered.
\* A handler that threw is answered by the platform, with a text of its own.
outcomeOfKpi(k) ==
  IF k.resp.status = 500
  THEN [kind |-> "text", payload |-> NoPayload]
  ELSE [kind |-> "json", payload |-> payloadOfBody(kpiBody(k))]

ChainBodies ==
  {Body(Str(ExampleCom), Num(2), m, Undefined) : m \in {Undefined, Str(Live)}}

ChainData ==
  { EmptyData,
    Data(Undefined, Str(Stop), Str(BenchmarkText)),
    Data(Undefined, Str(Stop), Str(TrustText)),
    Data(Undefined, Str(Stop), Str(NullText)) }

NextChain ==
  \/ \E p \in Procs, body \in ChainBodies :
       kpi.pc = "idle" /\ Begin(p, [parses |-> TRUE, body |-> body], TRUE)
  \/ \E p \in Procs : reqs[p].pc = "fetching" /\ KpiBegin(reqs[p].ev)
  \/ \E respOk \in BOOLEAN : FetchResolves(respOk)
  \/ FetchRejects
  \/ \E data \in ChainData : BodyRead(data)
  \/ \E asAbortError \in BOOLEAN : TimerFires(asAbortError)
  \/ KpiContinue
  \/ \E p \in Procs : kpi.pc = "done" /\ UpstreamReturn(p, outcomeOfKpi(kpi))
  \/ \E p \in Procs, outcome \in ConcurrentOutcomes :
       kpi.pc = "idle" /\ UpstreamReturn(p, outcome)
  \/ \E p \in Procs : StoreSet(p, TRUE)
  \/ (\A p \in Procs : reqs[p].pc = "done") /\ KpiDeliver
  \/ \E p \in Procs : kpi.pc = "idle" /\ Deliver(p)
  \/ Tick

SpecChain == InitKpi /\ [][NextChain]_vars

\* The KPI handler answered 200 with a normalised output in which at least
\* 3 of the 4 benchmark fields are finite numbers.
KpiAnsweredBenchmarks ==
  /\ kpi.pc = "done"
  /\ kpi.resp.status = 200
  /\ Cardinality({k \in BenchmarkFields : PresentAndFinite(kpi.resp.output.f[k])}) >= 3

(***************************************************************************)
(* C32.  The KPI handler's output passes the cache handler's validity      *)
(* check: when the cache handler called the KPI handler and that answered  *)
(* 200 with at least 3 of the 4 benchmark fields finite in its normalised  *)
(* output, the cache handler stores the payload and answers 200.           *)
(***************************************************************************)
C32_KpiOutputAccepted ==
  \A p \in Procs :
    LET r == reqs[p]
    IN  ( Answered(p) /\ r.calls = 1 /\ r.up.kind # "none" /\ KpiAnsweredBenchmarks )
        => /\ r.resp.status = 200
           /\ r.wrote
           /\ store[KeyOf(r)].present


(***************************************************************************)
(* The decision handler (netlify/functions/ubiqitumCacheOrchestrator.ts).  *)
(* It is a function of the request, which carries the cached entry, and of *)
(* the clock: it answers serve_cache or recompute and touches no store.    *)
(***************************************************************************)
\* new URL(url).host: the host of an http or https URL, lower-cased; the
\* parse fails for a string without a scheme or without a host.  Ports and
\* credentials are not modelled.
urlHost(raw) ==
  LET t         == trim(raw)
      lower     == toLowerCase(t)
      hasHttp   == startsWith(lower, <<"h","t","t","p",":","/","/">>)
      hasHttps  == startsWith(lower, <<"h","t","t","p","s",":","/","/">>)
      rest      == slice(lower, IF hasHttp THEN 7 ELSE 8)
      nonSlash  == {i \in 1..Len(rest) : rest[i] \notin {"/", "\\"}}
      after     == IF nonSlash = {} THEN <<>>
                   ELSE SubSeq(rest, CHOOSE i \in nonSlash : \A j \in nonSlash : i <= j,
                               Len(rest))
      host      == splitFirst(after)
  IN  IF ~(hasHttp \/ hasHttps) \/ host = <<>>
         \/ \E i \in 1..Len(host) : IsSpaceChar(host[i])
      THEN [ok |-> FALSE, host |-> <<>>]
      ELSE [ok |-> TRUE, host |-> host]

\* The prefix the source tests for, as it is written there.
WwwPrefix ==
  <<"[","w","w","w","]","(","h","t","t","p",":","/","/","w","w","w",")",".">>

canonicalizeDomain(url) ==
  LET u == urlHost(url)
  IN  IF u.ok
      THEN IF startsWith(u.host, WwwPrefix) THEN slice(u.host, 4) ELSE u.host
      ELSE toLowerCase(url)

\* canonical_domain.split(".")[0]
firstLabel(domain) ==
  LET dots == {i \in 1..Len(domain) : domain[i] = "."}
  IN  IF dots = {} THEN domain
      ELSE SubSeq(domain, 1, (CHOOSE i \in dots : \A j \in dots : i <= j) - 1)

Overrides(timeframe) ==
  [brand_name |-> Undefined, market |-> Undefined, sector |-> Undefined,
   segment |-> Undefined, timeframe |-> timeframe, industry_definition |-> Undefined]

NoCached ==
  [present |-> FALSE, payload |-> NoPayload,
   meta |-> [sk |-> NoSK, last_refreshed_at |-> 0, consistency_window_days |-> Undefined]]

Cached(payload, sk, last, window) ==
  [present |-> TRUE, payload |-> payload,
   meta |-> [sk |-> sk, last_refreshed_at |-> last, consistency_window_days |-> window]]

CacheRequest(url, seed, mode, cwd, overrides, cached) ==
  [brand_url |-> url, seed |-> seed, stability_mode |-> mode,
   consistency_window_days |-> cwd, overrides |-> overrides, cached |-> cached]

\* The SK of a request: the overrides resolved, then computeSK.
orchestratorSK(body) ==
  LET canonical_domain == canonicalizeDomain(body.brand_url.s)
      overrides        == body.overrides
  IN  computeSK(canonical_domain,
                OrElse(overrides.brand_name, Str(firstLabel(canonical_domain))).s,
                OrElse(overrides.market, Str(<<"G","l","o","b","a","l">>)).s,
                OrElse(overrides.sector, Str(General)).s,
                OrElse(overrides.segment, Str(B2C)).s,
                OrElse(overrides.timeframe, Str(Current)).s,
                OrElse(overrides.industry_definition, Null),
                Coalesce(body.seed, Num(0)).n)

\* Variant: the window of the request comes before the stored one.
windowDaysRequestFirst(meta, consistency_window_days) ==
  Coalesce(consistency_window_days, Coalesce(meta.consistency_window_days, Num(180))).n

\* body.cached.meta.consistency_window_days ?? consistency_window_days
windowDays(meta, consistency_window_days) ==
  Coalesce(meta.consistency_window_days, Coalesce(consistency_window_days, Num(180))).n

\* Variant: the SK of the cached entry is not compared.
noMaterialChangeAlways(meta, sk) == TRUE

\* body.cached.meta.sk === sk
noMaterialChange(meta, sk) == meta.sk = sk

orchestratorHandler(body, t) ==
  LET sk             == orchestratorSK(body)
      stability_mode == OrElse(body.stability_mode, Str(Pinned))
      serveCache ==
        /\ stability_mode = Str(Pinned)
        /\ body.cached.present
        /\ withinWindowTest(t - body.cached.meta.last_refreshed_at,
                            windowDays(body.cached.meta, body.consistency_window_days))
        /\ noMaterialChange(body.cached.meta, sk)
  IN  IF serveCache
      THEN [action |-> "serve_cache", sk |-> sk, payload |-> body.cached.payload]
      ELSE [action |-> "recompute", sk |-> sk, payload |-> NoPayload]

(***************************************************************************)
(* Pairs of requests to the decision handler at one time of the clock: a   *)
(* request, and the same request with its window, its timeframe or the     *)
(* spelling of its brand_url changed.                                      *)
(***************************************************************************)
WwwUrl ==
  <<"h","t","t","p","s",":","/","/","w","w","w",".","e","x","a","m","p","l","e",".","c","o","m","/">>

BareUrl == <<"h","t","t","p","s",":","/","/","e","x","a","m","p","l","e",".","c","o","m","/">>

DecisionUrls == {Str(WwwUrl), Str(BareUrl), Str(ExampleCom)}

DecisionTimeframes == {Undefined, Str(Current), Str(<<"c","u","r","r","e","n","t">>)}

DecisionWindows == {Undefined, Num(0), Num(1)}

PlainRequest(url, timeframe) ==
  CacheRequest(url, Num(2), Undefined, Undefined, Overrides(timeframe), NoCached)

OtherSK == <<"o","t","h","e","r">>

BareSK == orchestratorSK(PlainRequest(Str(BareUrl), Undefined))

WwwSK == orchestratorSK(PlainRequest(Str(WwwUrl), Undefined))

DecisionCached ==
  {NoCached}
  \cup { Cached(Obj(Num(10), Num(20), Num(30), Num(40), Num(50)), sk, last, w) :
           sk \in {BareSK, WwwSK, OtherSK},
           last \in {0},
           w \in DecisionWindows }

DecisionRequests ==
  { CacheRequest(url, Num(2), m, w, Overrides(tf), c) :
      url \in DecisionUrls, m \in {Undefined, Str(Live)}, w \in DecisionWindows,
      tf \in DecisionTimeframes, c \in DecisionCached }

DecisionVariants(a) ==
  { [a EXCEPT !.consistency_window_days = w] : w \in DecisionWindows }
  \cup { [a EXCEPT !.overrides = Overrides(tf)] : tf \in DecisionTimeframes }
  \cup { [a EXCEPT !.brand_url = url] : url \in DecisionUrls }

InitDecision ==
  /\ now \in 0..MaxTime
  /\ store = [k \in Keys |-> NoEntry]
  /\ reqs = [p \in {1} |-> IdleReq]
  /\ \E a \in DecisionRequests : \E b \in DecisionVariants(a) : input = [a |-> a, b |-> b]
  /\ output = NoOutput
  /\ kpi = IdleKpi

ApplyDecision ==
  /\ ~output.ready
  /\ output' = [ready |-> TRUE,
                a |-> orchestratorHandler(input.a, now),
                b |-> orchestratorHandler(input.b, now)]
  /\ UNCHANGED <<now, store, reqs, input, kpi>>

NextDecision == ApplyDecision

SpecDecision == InitDecision /\ [][NextDecision]_vars


\* The request asks for pinned mode, carries an entry, and the SK of that
\* entry is the SK the handler answered.
PinnedWithEntryOfSK(req, out) ==
  /\ req.stability_mode \in {Undefined, Str(Pinned)}
  /\ req.cached.present
  /\ req.cached.meta.sk = out.sk

\* The window of the freshness test as the claim has it, in ticks: the
\* entry's own, or the request's (180 days by default) when it has none.
StoredWindowTicks(req) ==
  (IF req.cached.meta.consistency_window_days # Undefined
   THEN req.cached.meta.consistency_window_days.n
   ELSE IF req.consistency_window_days # Undefined
   THEN req.consistency_window_days.n ELSE 180) * TicksPerDay

(***************************************************************************)
(* C34.  The window of the freshness test is the one stored in the entry's *)
(* meta, and the request's window is used only when the entry has none: a  *)
(* request that differs from another in its window alone gets the same     *)
(* decision for an entry that has a stored window.                         *)
(***************************************************************************)
C34_StoredWindowDecides ==
  output.ready
  => /\ ( /\ input.a.cached.present
          /\ input.a.cached.meta.consistency_window_days # Undefined
          /\ input.b = [input.a EXCEPT !.consistency_window_days =
                                         input.b.consistency_window_days] )
        => output.a.action = output.b.action
     /\ PinnedWithEntryOfSK(input.a, output.a)
        => ( output.a.action = "serve_cache"
             <=> now - input.a.cached.meta.last_refreshed_at <= StoredWindowTicks(input.a) )

C34_Witness ==
  /\ output.ready
  /\ PinnedWithEntryOfSK(input.a, output.a)
  /\ input.a.cached.meta.consistency_window_days = Num(1)
  /\ input.a.consistency_window_days = Num(0)
  /\ input.b.consistency_window_days = Undefined
  /\ input.b = [input.a EXCEPT !.consistency_window_days = Undefined]
  /\ now = 1
  /\ output.a.action = "serve_cache" /\ output.b.action = "serve_cache"

(***************************************************************************)
(* C36.  The decision: the handler answers serve_cache, with the payload   *)
(* the request carried, exactly when the mode is pinned, the request       *)
(* carries an entry, the entry's age is at most its window and the entry's *)
(* SK is the SK computed from the request; in every other case it answers  *)
(* recompute; both answers carry the computed SK.                          *)
(***************************************************************************)
C36_ServeExactlyWhenFresh ==
  output.ready
  => /\ output.a.action \in {"serve_cache", "recompute"}
     /\ output.a.sk # NoSK
     /\ output.a.sk = output.b.sk
          <=> orchestratorSK(input.a) = orchestratorSK(input.b)
     /\ output.a.action = "serve_cache"
          <=> /\ input.a.stability_mode \in {Undefined, Str(Pinned)}
              /\ input.a.cached.present
              /\ now - input.a.cached.meta.last_refreshed_at <= StoredWindowTicks(input.a)
              /\ input.a.cached.meta.sk = output.a.sk
     /\ output.a.action = "serve_cache" => output.a.payload = input.a.cached.payload
     /\ output.a.action = "recompute" => output.a.payload = NoPayload

C36_Witness ==
  /\ output.ready
  /\ input.a.brand_url = Str(BareUrl)
  /\ input.a.cached.present
  /\ output.a.action = "serve_cache"
  /\ output.a.sk = <<"sha256:">>
       \o <<"e","x","a","m","p","l","e",".","c","o","m","|">>
       \o <<"e","x","a","m","p","l","e","|","g","l","o","b","a","l","|">>
       \o <<"g","e","n","e","r","a","l","|","b","2","c","|">>
       \o <<"C","u","r","r","e","n","t","|","|","2","|","V","3",".","5",".","1","4">>
  /\ input.b.brand_url = Str(WwwUrl)
  /\ output.b.action = "recompute"

\* Two brand_urls that differ only by a leading www. of the host.
SameUpToWww(x, y) == {x, y} = {Str(WwwUrl), Str(BareUrl)}

\* Two timeframes that differ only in the case of their letters.
SameUpToCase(x, y) == x.t = "string" /\ y.t = "string" /\ toLowerCase(x.s) = toLowerCase(y.s)

(***************************************************************************)
(* C37.  www and letter case in the decision handler: two requests whose   *)
(* brand_url differ only by a leading www. of the host, or whose timeframe *)
(* differ only in letter case, are given the same sk.                      *)
(***************************************************************************)
C37_WwwAndCaseIgnored ==
  output.ready
  => /\ ( /\ SameUpToWww(input.a.brand_url, input.b.brand_url)
          /\ input.b = [input.a EXCEPT !.brand_url = input.b.brand_url] )
        => output.a.sk = output.b.sk
     /\ ( /\ SameUpToCase(input.a.overrides.timeframe, input.b.overrides.timeframe)
          /\ input.b = [input.a EXCEPT !.overrides = input.b.overrides] )
        => output.a.sk = output.b.sk

(***************************************************************************)
(* The seed of one request as the two handlers read it: the cache handler  *)
(* hashes String(seed) into the SK (buildSK), the KPI handler hands        *)
(* Number.isInteger(seed) ? seed : 0 to normaliseScores, which nudges by   *)
(* seed % 2.  The input is a pair of requests that differ in the seed      *)
(* alone, the seed being an integer, the decimal string of one, null or    *)
(* absent.                                                                 *)
(***************************************************************************)
SeedValues ==
  {Undefined, Null} \cup {Num(n) : n \in Seeds} \cup {Str(intToString(n)) : n \in Seeds}

SeedBody(seed) == Body(Str(BareUrl), seed, Undefined, Undefined)

\* The eighth of the hashed parts.
seedPart(body) == skParts(body)[8]

\* seed % 2 of the seed the normaliser is given.
seedParity(body) == remainder(seedOf(body), 2)

InitSeed ==
  /\ now = 0
  /\ store = [k \in Keys |-> NoEntry]
  /\ reqs = [p \in {1} |-> IdleReq]
  /\ \E x \in SeedValues, y \in SeedValues :
       input = [a |-> SeedBody(x), b |-> SeedBody(y)]
  /\ output = NoOutput
  /\ kpi = IdleKpi

ApplySeed ==
  /\ ~output.ready
  /\ output' = [ready |-> TRUE,
                a |-> [sk |-> buildSK(input.a), part |-> seedPart(input.a),
                       parity |-> seedParity(input.a), nudge |-> nudge(seedOf(input.a))],
                b |-> [sk |-> buildSK(input.b), part |-> seedPart(input.b),
                       parity |-> seedParity(input.b), nudge |-> nudge(seedOf(input.b))]]
  /\ UNCHANGED <<now, store, reqs, input, kpi>>

NextSeed == ApplySeed

SpecSeed == InitSeed /\ [][NextSeed]_vars

(***************************************************************************)
(* C38.  Same SK, same nudge: when the seed parts of the SKs of two        *)
(* requests are equal, the parity of the seed the KPI handler gives its    *)
(* normaliser is equal for both, and so is the direction of the nudge.     *)
(***************************************************************************)
C38_SameSKSameParity ==
  output.ready /\ output.a.part = output.b.part
  => output.a.parity = output.b.parity /\ output.a.nudge = output.b.nudge

====
